---- MODULE Spec2Model ----
(***************************************************************************)
(* A model of the SQL statement builder of toptensoftware/sqlite (SQL.js)  *)
(* and of the condition compiler SQL.buildCondition.                       *)
(*                                                                         *)
(* JavaScript values are records of one shape,                             *)
(*   [t, n, x, a, o]                                                       *)
(* t the runtime type, n the number, x the characters of a string (or the  *)
(* text of an SQL instance), a the elements of an array (or the params of  *)
(* an SQL instance) and o the properties of an object in key order.        *)
(*                                                                         *)
(* A string is a sequence of units.  A unit is one character, or a word    *)
(* the builder emits or receives whole (a keyword, a column name); its     *)
(* length in characters is ULen(unit).  BQ stands for the one-character    *)
(* backtick.                                                               *)
(***************************************************************************)
EXTENDS Integers, Sequences, FiniteSets, TLC

VARIABLES
    b,       \* the builder the calls are made on
    pre,     \* the builder as it was before the last call
    hist,    \* the calls made so far: [op, args, threw]
    limit,   \* the number of calls the run may make
    ran,     \* the statement the database ran last: [method, sql, params]
    objs,    \* SpecAlias: the builders R and S, params holding the address of an array
    heap,    \* SpecAlias: the arrays, by address
    was,     \* SpecAlias: text and parameters of R and S before the last call
    logged,  \* the strings handed to the sink of log(), in order
    db       \* the Database the calls are made on (its fields, and the engine under it)

vars == <<b, pre, hist, limit, ran, objs, heap, was, logged, db>>

aliasVars == <<objs, heap, was>>

-----------------------------------------------------------------------------
(* JavaScript values                                                       *)

Val(t, n, x, a, o) == [t |-> t, n |-> n, x |-> x, a |-> a, o |-> o]

Undefined == Val("undefined", 0, <<>>, <<>>, <<>>)
Null      == Val("null", 0, <<>>, <<>>, <<>>)
Fn        == Val("function", 0, <<>>, <<>>, <<>>)
Num(n)    == Val("number", n, <<>>, <<>>, <<>>)
Str(x)    == Val("string", 0, x, <<>>, <<>>)
Arr(a)    == Val("array", 0, <<>>, a, <<>>)
Obj(o)    == Val("object", 0, <<>>, <<>>, o)
Bool(v)   == Val("boolean", IF v THEN 1 ELSE 0, <<>>, <<>>, <<>>)
Buffer(x) == Val("buffer", 0, x, <<>>, <<>>)
SqlVal(x, a) == Val("sql", 0, x, a, <<>>)

\* one property of an object: key, value, and whether the object owns it
Prop(k, v)      == [k |-> k, v |-> v, own |-> TRUE]
Inherited(k, v) == [k |-> k, v |-> v, own |-> FALSE]

\* obj.key: the value of the property, undefined when the object has none;
\* a primitive, an array or a function has none of the keys of the model
Get(obj, key) ==
    IF \E i \in 1..Len(obj.o) : obj.o[i].k = key
    THEN obj.o[CHOOSE i \in 1..Len(obj.o) : obj.o[i].k = key].v
    ELSE Undefined

\* arguments[i-1], undefined past arguments.length
Arg(args, i) == IF i <= Len(args) THEN args[i] ELSE Undefined

-----------------------------------------------------------------------------
(* Strings                                                                 *)

BQ == "BQ"

ULen(u) == IF u = BQ THEN 1 ELSE Len(u)

RECURSIVE StrLen(_)
StrLen(x) == IF x = <<>> THEN 0 ELSE ULen(Head(x)) + StrLen(Tail(x))

\* Array.prototype.join(sep) over an array of strings
RECURSIVE Join(_, _)
Join(parts, sep) ==
    IF parts = <<>> THEN <<>>
    ELSE IF Len(parts) = 1 THEN parts[1]
    ELSE parts[1] \o sep \o Join(Tail(parts), sep)

\* a first character that is never $ nor .
FirstCharPlain(key) == "a"

\* key[0]: the first character of a property name
FirstChar(key) ==
    CASE key \in {"$ignored", "$or", "$x"} -> "$"
      [] key \in {".meta"} -> "."
      [] OTHER -> "a"

\* Number.prototype.toString() of a natural number: its decimal digits
DigitChar(d) ==
    CASE d = 0 -> "0" [] d = 1 -> "1" [] d = 2 -> "2" [] d = 3 -> "3" [] d = 4 -> "4"
      [] d = 5 -> "5" [] d = 6 -> "6" [] d = 7 -> "7" [] d = 8 -> "8" [] OTHER -> "9"

RECURSIVE NumText(_)
NumText(n) == IF n < 10 THEN DigitChar(n) ELSE NumText(n \div 10) \o DigitChar(n % 10)

\* String(v), as " " + v computes it: a string is itself, a number its
\* digits, an array its elements joined by "," (null and undefined as
\* nothing), any other object [object Object]
RECURSIVE ToText(_)
ToText(v) ==
    CASE v.t = "string"    -> v.x
      [] v.t = "number"    -> <<NumText(v.n)>>
      [] v.t = "array"     ->
            Join([i \in 1..Len(v.a) |->
                    IF v.a[i].t \in {"undefined", "null"} THEN <<>> ELSE ToText(v.a[i])],
                 <<",">>)
      [] v.t = "boolean"   -> <<IF v.n = 1 THEN "true" ELSE "false">>
      [] v.t = "undefined" -> <<"undefined">>
      [] v.t = "null"      -> <<"null">>
      [] OTHER             -> <<"[object Object]">>

\* number of occurrences of unit u in a string
RECURSIVE Count(_, _)
Count(x, u) ==
    IF x = <<>> THEN 0
    ELSE (IF Head(x) = u THEN 1 ELSE 0) + Count(Tail(x), u)

-----------------------------------------------------------------------------
(* The builder: this.sql, this.params, this.hasWhere, this.values (the     *)
(* method, until values() or set() stores a mapping over it) and           *)
(* this._fndata.                                                           *)

NewSQL == [sql |-> <<>>, params |-> <<>>, hasWhere |-> FALSE,
           values |-> Fn, fndata |-> Undefined]

\* an append without its first statement, delete this.hasWhere
SQLappendKeepsFlag(bld, args) ==
    LET a2     == IF Arg(args, 1).t = "sql"
                  THEN <<Str(Arg(args, 1).x), Arr(Arg(args, 1).a)>> ELSE args
        sql    == Arg(a2, 1)
        params == Arg(a2, 2)
    IN  IF sql.t \in {"undefined", "null"} THEN bld
        ELSE [bld EXCEPT
                !.sql = IF StrLen(bld.sql) > 1
                        THEN bld.sql \o <<" ">> \o ToText(sql)
                        ELSE ToText(sql),
                !.params =
                    IF params.t # "undefined"
                    THEN IF params.t = "array" THEN @ \o params.a
                         ELSE IF Len(a2) > 1 THEN @ \o Tail(a2)
                         ELSE @
                    ELSE @]

\* SQL.append(sql, params): args are the arguments of the call
RECURSIVE SQLappend(_, _)
SQLappend(bld, args) ==
    LET sql    == Arg(args, 1)
        params == Arg(args, 2)
        b0     == [bld EXCEPT !.hasWhere = FALSE]
    IN  IF sql.t \in {"undefined", "null"} THEN b0
        ELSE IF sql.t = "sql" THEN SQLappend(b0, <<Str(sql.x), Arr(sql.a)>>)
        ELSE [b0 EXCEPT
                \* (the else branch stores sql itself; every call of the model
                \* that reaches it passes a string)
                !.sql = IF StrLen(bld.sql) > 1
                        THEN bld.sql \o <<" ">> \o ToText(sql)
                        ELSE ToText(sql),
                !.params =
                    IF params.t # "undefined"
                    THEN IF params.t = "array" THEN @ \o params.a
                         ELSE IF Len(args) > 1 THEN @ \o Tail(args)
                         ELSE @
                    ELSE @]

\* new SQL(...args): the constructor appends its arguments to an empty builder
SQLnew(args) == SQLappend(NewSQL, args)

\* an SQL instance passed as a value: its text and its params
AsValue(bld) == SqlVal(bld.sql, bld.params)

\* the clause-keyword methods insert, delete, update, insertOrReplace,
\* insertOrIgnore, from, orderBy, groupBy, leftJoin:
\* this.append(keyword); return this.append.apply(this, arguments)
SQLkeyword(bld, kw, args) == SQLappend(SQLappend(bld, <<Str(kw)>>), args)

Keyword(op) ==
    CASE op = "insert"          -> <<"INSERT", " ", "INTO">>
      [] op = "delete"          -> <<"DELETE", " ", "FROM">>
      [] op = "update"          -> <<"UPDATE">>
      [] op = "insertOrReplace" -> <<"INSERT", " ", "OR", " ", "REPLACE", " ", "INTO">>
      [] op = "insertOrIgnore"  -> <<"INSERT", " ", "OR", " ", "IGNORE", " ", "INTO">>
      [] op = "from"            -> <<"FROM">>
      [] op = "orderBy"         -> <<"ORDER", " ", "BY">>
      [] op = "groupBy"         -> <<"GROUP", " ", "BY">>
      [] op = "leftJoin"        -> <<"LEFT", " ", "JOIN">>

-----------------------------------------------------------------------------
(* values() and set()                                                      *)

ValuesKeepsUndefined(p) ==
    /\ FirstChar(p.k) \notin {"$", "."}
    /\ p.own
    /\ p.v.t # "function"

\* the test of values() on one property of the mapping
ValuesKeeps(p) ==
    /\ FirstChar(p.k) \notin {"$", "."}
    /\ p.own
    /\ p.v.t # "function"
    /\ p.v.t # "undefined"

\* columnNames / params / paramValues built by the loop of values()
ColumnNames(kept) == [i \in 1..Len(kept) |-> <<BQ, kept[i].k, BQ>>]
PlaceholdersOneFewer(n) == [i \in 1..(n - 1) |-> <<"?">>]
PlaceholdersOneMore(n) == [i \in 1..(n + 1) |-> <<"?">>]
Placeholders(n)   == [i \in 1..n |-> <<"?">>]
PropValues(kept)  == [i \in 1..Len(kept) |-> kept[i].v]

\* values(values) for a mapping; calling it throws a TypeError, and changes
\* nothing, once this.values holds a mapping instead of the method
SQLvaluesThrows(bld, values) == bld.values.t # "function"

SQLvalues(bld, values) ==
    IF SQLvaluesThrows(bld, values) THEN bld
    ELSE IF values.t = "array"
    THEN SQLappend(bld,
            << Str(<<"(">> \o Join([i \in 1..Len(values.a) |-> values.a[i].x], <<",">>)
                   \o <<")", " ", "VALUES", " ", "(">>
                   \o Join(Placeholders(Len(values.a)), <<",">>) \o <<")">>),
               Arr(<<>>) >>)
    ELSE LET kept == SelectSeq(values.o, ValuesKeeps)
         IN  SQLappend([bld EXCEPT !.values = Obj(kept)],
                << Str(<<"(">> \o Join(ColumnNames(kept), <<",">>)
                       \o <<")", " ", "VALUES", " ", "(">>
                       \o Join(Placeholders(Len(kept)), <<",">>) \o <<")">>),
                   Arr(PropValues(kept)) >>)

\* truthiness of a value
Truthy(v) ==
    CASE v.t = "number" -> v.n # 0
      [] v.t = "string" -> v.x # <<>>
      [] v.t \in {"null", "undefined"} -> FALSE
      [] OTHER -> TRUE

\* Number(string) for the strings of the model: "" is 0, a digit its value
IsNumeric(x) == x = <<>> \/ (Len(x) = 1 /\ x[1] \in {"0", "1", "2", "3"})
ToNumber(x) ==
    IF x = <<>> THEN 0
    ELSE CASE x[1] = "0" -> 0 [] x[1] = "1" -> 1 [] x[1] = "2" -> 2 [] x[1] = "3" -> 3

\* v == w of JavaScript, on primitive values
LooseEq(v, w) ==
    CASE v.t = "number" /\ w.t = "number" -> v.n = w.n
      [] v.t = "string" /\ w.t = "string" -> v.x = w.x
      [] v.t \in {"null", "undefined"} -> w.t \in {"null", "undefined"}
      [] v.t = "number" /\ w.t = "string" -> IsNumeric(w.x) /\ ToNumber(w.x) = v.n
      [] v.t = "string" /\ w.t = "number" -> IsNumeric(v.x) /\ ToNumber(v.x) = w.n
      [] OTHER -> FALSE

\* the test of set() on one property of the mapping
SetKeeps(p) ==
    /\ FirstChar(p.k) \notin {"$", "."}
    /\ p.own
    /\ p.v.t # "function"

\* "Ignore unchanged fields": the condition under which set() skips a column
SetSkips(p, originalValues) ==
    /\ Truthy(originalValues)
    /\ Truthy(Get(originalValues, p.k))
    /\ LooseEq(Get(originalValues, p.k), p.v)

SetExpressions(cols) ==
    [i \in 1..Len(cols) |-> <<BQ, cols[i].k, BQ, " ", "=", " ", "?">>]

\* set(values, originalValues): args are the arguments of the call
SQLset(bld, args) ==
    LET values         == Arg(args, 1)
        originalValues == Arg(args, 2)
        b1             == SQLappend(bld, <<Str(<<"SET">>)>>)
    IN  IF values.t = "string" THEN SQLappend(b1, args)
        ELSE LET kept == SelectSeq(values.o, SetKeeps)
                 Changed(p) == ~SetSkips(p, originalValues)
                 cols == SelectSeq(kept, Changed)
             IN  SQLappend([b1 EXCEPT !.values = Obj(kept)],
                    << Str(Join(SetExpressions(cols), <<",">>)),
                       Arr(PropValues(cols)) >>)

-----------------------------------------------------------------------------
(* The condition compiler SQL.buildCondition.  The state of a compilation  *)
(* is the array sql of expressions, the array params, and whether a        *)
(* TypeError was thrown.                                                   *)

Compile0 == [sql |-> <<>>, params |-> <<>>, threw |-> FALSE]

Push(st, expr)        == [st EXCEPT !.sql = Append(@, expr)]
PushP(st, expr, p)    == [st EXCEPT !.sql = Append(@, expr), !.params = Append(@, p)]
Throw(st)             == [st EXCEPT !.threw = TRUE]

\* "`" + key + "` <op> ?"
Cmp(key, op) == <<BQ, key, BQ, " ">> \o op \o <<" ", "?">>

Has(v, k) == Get(v, k).t # "undefined"

RECURSIVE build_expression(_, _, _)
RECURSIVE build_each(_, _, _)

\* a loop that stops after the first sub-condition
build_first(key, subs, st) ==
    IF subs = <<>> \/ st.threw THEN st ELSE build_expression(key, Head(subs), st)

\* for (let sub of subs) build_expression(sub)
build_each(key, subs, st) ==
    IF subs = <<>> \/ st.threw THEN st
    ELSE build_each(key, Tail(subs), build_expression(key, Head(subs), st))

\* build_expression(v) for the column key, from the state st
build_expression(key, v, st) ==
    IF st.threw THEN st
    ELSE IF v.t = "null" THEN Push(st, <<BQ, key, BQ, " ", "IS", " ", "NULL">>)
    ELSE IF v.t = "undefined" THEN Throw(st)
    ELSE IF Has(v, "$ne")   THEN PushP(st, Cmp(key, <<"<>">>), Get(v, "$ne"))
    ELSE IF Has(v, "$lt")   THEN PushP(st, Cmp(key, <<"<">>), Get(v, "$lt"))
    ELSE IF Has(v, "$gt")   THEN PushP(st, Cmp(key, <<">">>), Get(v, "$gt"))
    ELSE IF Has(v, "$lte")  THEN PushP(st, Cmp(key, <<"<=">>), Get(v, "$lte"))
    ELSE IF Has(v, "$gte")  THEN PushP(st, Cmp(key, <<">=">>), Get(v, "$gte"))
    ELSE IF Has(v, "$le")   THEN PushP(st, Cmp(key, <<"<=">>), Get(v, "$le"))
    ELSE IF Has(v, "$ge")   THEN PushP(st, Cmp(key, <<">=">>), Get(v, "$ge"))
    ELSE IF Has(v, "$eq")   THEN PushP(st, Cmp(key, <<"=">>), Get(v, "$ge"))
    ELSE IF Has(v, "$like") THEN PushP(st, Cmp(key, <<"LIKE">>), Get(v, "$like"))
    ELSE IF Has(v, "$glob") THEN PushP(st, Cmp(key, <<"GLOB">>), Get(v, "$glob"))
    ELSE IF Get(v, "$is").t = "null"
         THEN Push(st, <<BQ, key, BQ, " ", "IS", " ", "NULL">>)
    ELSE IF Get(v, "$isnot").t = "null"
         THEN Push(st, <<BQ, key, BQ, " ", "IS", " ", "NOT", " ", "NULL">>)
    ELSE IF Has(v, "$in") THEN
        LET in == Get(v, "$in")
        IN  IF in.t = "sql"
            THEN [st EXCEPT
                    !.sql = Append(@, <<BQ, key, BQ, " ", "IN", " ", "(">> \o in.x \o <<")">>),
                    !.params = @ \o in.a]
            ELSE IF in.t = "array"
            THEN [st EXCEPT
                    !.sql = Append(@, <<BQ, key, BQ, " ", "IN", " ", "(">>
                                      \o Join(Placeholders(Len(in.a)), <<",">>) \o <<")">>),
                    !.params = @ \o in.a]
            ELSE Throw(st)
    ELSE IF Has(v, "$nin") THEN
        \* reads v.$in, which is undefined here: v.$in.length throws
        Throw(st)
    ELSE IF Has(v, "$or") THEN
        LET or  == Get(v, "$or")
            sub == build_each(key, or.a, [st EXCEPT !.sql = <<>>])
        IN  IF or.t # "array" THEN Throw(st)
            ELSE IF sub.threw THEN sub
            ELSE [sub EXCEPT !.sql =
                    Append(st.sql, <<"(">> \o Join(sub.sql, <<" ", "OR", " ">>) \o <<")">>)]
    ELSE IF Has(v, "$and") THEN
        LET and == Get(v, "$and")
            sub == build_each(key, and.a, [st EXCEPT !.sql = <<>>])
        IN  IF and.t # "array" THEN Throw(st)
            ELSE IF sub.threw THEN sub
            ELSE [sub EXCEPT !.sql =
                    Append(st.sql, <<"(">> \o Join(sub.sql, <<" ", "AND", " ">>) \o <<")">>)]
    ELSE IF Has(v, "$not") THEN
        LET not == Get(v, "$not")
            sub == build_expression(key, not, [st EXCEPT !.sql = <<>>])
        IN  IF not.t = "null" THEN Throw(st)
            ELSE IF Get(not, "$is").t = "null"
            THEN Push(st, <<BQ, key, BQ, " ", "IS", " ", "NOT", " ", "NULL">>)
            ELSE IF sub.threw THEN sub
            ELSE [sub EXCEPT !.sql =
                    Append(st.sql, <<"NOT", " ", "(">> \o Join(sub.sql, <<",">>) \o <<")">>)]
    ELSE PushP(st, <<key, " ", "=", " ", "?">>, v)

\* the loop over Object.entries(condition)
RECURSIVE build_entries(_, _)
build_entries(entries, st) ==
    IF entries = <<>> \/ st.threw THEN st
    ELSE LET p == Head(entries)
         IN  build_entries(Tail(entries),
                IF FirstChar(p.k) \in {"$", "."} THEN st
                ELSE build_expression(p.k, p.v, st))

IsOwn(p) == p.own

\* buildCondition(condition, ...): [v |-> the value returned, threw |-> a TypeError]
buildCondition(args) ==
    LET condition == Arg(args, 1)
        st == build_entries(SelectSeq(condition.o, IsOwn), Compile0)
    IN  IF condition.t = "sql" THEN [v |-> condition, threw |-> FALSE]
        ELSE IF condition.t = "string"
        THEN [v |-> AsValue(SQLappend(NewSQL, args)), threw |-> FALSE]
        ELSE IF condition.t \in {"undefined", "null"} \/ st.threw
        THEN [v |-> Undefined, threw |-> TRUE]
        ELSE IF Len(st.sql) = 0 THEN [v |-> Str(<<"TRUE">>), threw |-> FALSE]
        ELSE [v |-> AsValue(SQLnew(<< Str(<<"(">> \o Join(st.sql, <<" ", "AND", " ">>) \o <<")">>),
                                      Arr(st.params) >>)),
              threw |-> FALSE]

-----------------------------------------------------------------------------
(* Methods that compile a condition.  Each returns the builder the call    *)
(* leaves behind; <name>Throws tells whether the call ends in a TypeError  *)
(* (buildCondition threw), in which case what was appended before stays.   *)

\* this.append(keyword); return this.append(SQL.buildCondition(arguments))
AppendCondition(bld, kw, args) ==
    LET b1 == SQLappend(bld, <<Str(kw)>>)
        c  == buildCondition(args)
    IN  IF c.threw THEN b1 ELSE SQLappend(b1, <<c.v>>)

WhereIsNoopStrict(args) ==
    Len(args) = 0 \/ (Len(args) = 1 /\ args[1].t = "undefined")

\* the guard of where(): no argument, or one argument == undefined
WhereIsNoop(args) ==
    Len(args) = 0 \/ (Len(args) = 1 /\ args[1].t \in {"undefined", "null"})

SQLwhereThrows(bld, args) == ~WhereIsNoop(args) /\ buildCondition(args).threw

SQLwhere(bld, args) ==
    IF WhereIsNoop(args) THEN bld
    ELSE IF buildCondition(args).threw THEN AppendCondition(bld, <<"WHERE">>, args)
    ELSE [AppendCondition(bld, <<"WHERE">>, args) EXCEPT !.hasWhere = TRUE]

SQLandThrows(bld, args) == buildCondition(args).threw
SQLand(bld, args) == AppendCondition(bld, <<"AND">>, args)

SQLorThrows(bld, args) == buildCondition(args).threw
SQLor(bld, args) == AppendCondition(bld, <<"OR">>, args)

SQLonThrows(bld, args) == buildCondition(args).threw
SQLon(bld, args) == AppendCondition(bld, <<"ON">>, args)

SQLandWhereThrows(bld, args) ==
    IF bld.hasWhere THEN SQLandThrows(bld, args) ELSE SQLwhereThrows(bld, args)

SQLandWhereAlwaysWhere(bld, args) ==
    IF SQLwhereThrows(bld, args) THEN SQLwhere(bld, args)
    ELSE [SQLwhere(bld, args) EXCEPT !.hasWhere = TRUE]

SQLandWhere(bld, args) ==
    LET b1 == IF bld.hasWhere THEN SQLand(bld, args) ELSE SQLwhere(bld, args)
    IN  IF SQLandWhereThrows(bld, args) THEN b1
        ELSE [b1 EXCEPT !.hasWhere = TRUE]

SQLorWhereThrows(bld, args) ==
    IF bld.hasWhere THEN SQLorThrows(bld, args) ELSE SQLwhereThrows(bld, args)

SQLorWhere(bld, args) ==
    LET b1 == IF bld.hasWhere THEN SQLor(bld, args) ELSE SQLwhere(bld, args)
    IN  IF SQLorWhereThrows(bld, args) THEN b1
        ELSE [b1 EXCEPT !.hasWhere = TRUE]

-----------------------------------------------------------------------------
(* Pagination, param, fndata, parens, in                                   *)

LimitText2 == <<"LIMIT", " ", "?", ",", " ", "?">>

\* a takePage that counts pages from zero
SQLtakePageFromZero(bld, page, rowsPerPage) ==
    SQLappend(bld, <<Str(LimitText2), Arr(<<Num(page * rowsPerPage), Num(rowsPerPage)>>)>>)

SQLtakePage(bld, page, rowsPerPage) ==
    SQLappend(bld, <<Str(LimitText2), Arr(<<Num((page - 1) * rowsPerPage), Num(rowsPerPage)>>)>>)

SQLskipTake(bld, skip, take) ==
    SQLappend(bld, <<Str(LimitText2), Arr(<<Num(skip), Num(take)>>)>>)

SQLlimit(bld, rows) == SQLappend(bld, <<Str(<<"LIMIT", " ", "?">>), rows>>)

SQLparam(bld, value) == [bld EXCEPT !.params = Append(@, value)]

\* an fndata that counts its entries from one
SQLfndataFromOne(bld, data) ==
    LET fd == IF bld.fndata.t \in {"undefined", "null"} THEN <<>> ELSE bld.fndata.a
    IN  [bld EXCEPT !.params = Append(@, Num(Len(fd) + 1)),
                    !.fndata = Arr(Append(fd, data))]

SQLfndata(bld, data) ==
    LET fd == IF bld.fndata.t \in {"undefined", "null"} THEN <<>> ELSE bld.fndata.a
    IN  [bld EXCEPT !.params = Append(@, Num(Len(fd))),
                    !.fndata = Arr(Append(fd, data))]

SQLparens(bld, args) ==
    SQLappend(SQLappend(SQLappend(bld, <<Str(<<"(">>)>>), args), <<Str(<<")">>)>>)

SQLin(bld, args) ==
    LET b1 == SQLappend(bld, <<Str(<<"IN">>)>>)
    IN  IF Len(args) > 0 /\ args[1].t = "sql" THEN SQLparens(b1, <<args[1]>>)
        ELSE SQLappend(b1, args)

\* select(...): SELECT, then * / the aliased expressions of a mapping /
\* the joined entries of an array / the text given
IndexKey(i) == CASE i = 1 -> "0" [] i = 2 -> "1" [] i = 3 -> "2" [] OTHER -> "3"

SQLselect(bld, args) ==
    LET b1   == SQLappend(bld, <<Str(<<"SELECT">>)>>)
        a0   == Arg(args, 1)
        \* Object.keys(args).map(x => args[x] + " as `" + x + "`")
        \* (the keys of an array are its indices, those of an SQL instance
        \* its fields sql and params)
        keys == IF a0.t = "array"
                THEN [i \in 1..Len(a0.a) |-> Prop(IndexKey(i), a0.a[i])]
                ELSE IF a0.t = "sql"
                THEN <<Prop("sql", Str(a0.x)), Prop("params", Arr(a0.a))>>
                ELSE SelectSeq(a0.o, IsOwn)
        a1   == IF a0.t \in {"object", "array", "sql"}
                THEN Arr([i \in 1..Len(keys) |->
                        Str(ToText(keys[i].v) \o <<" ", "as", " ", BQ, keys[i].k, BQ>>)])
                ELSE a0
        a2   == IF a1.t = "array"
                THEN Str(Join([i \in 1..Len(a1.a) |-> a1.a[i].x], <<",", " ">>))
                ELSE a1
    IN  IF Len(args) = 0 THEN SQLappend(b1, <<Str(<<"*">>)>>)
        ELSE SQLappend(b1, <<a2>> \o Tail(args))

-----------------------------------------------------------------------------
(* The calls on one builder                                                *)

last == hist[Len(hist)]

CanCall == Len(hist) < limit

Call(op, args, res, threw) ==
    /\ CanCall
    /\ hist' = Append(hist, [op |-> op, args |-> args, threw |-> threw])
    /\ pre' = b
    /\ b' = res
    /\ UNCHANGED <<limit, ran, aliasVars, logged, db>>

-----------------------------------------------------------------------------
(* Inputs of the calls                                                     *)

N(n) == Num(n)
S1   == Str(<<"x">>)

\* { key: { op: v } }
OpCond(key, op, v) == Obj(<<Prop(key, Obj(<<Prop(op, v)>>))>>)

\* a sub-select with one placeholder and one parameter
SubSelect == SqlVal(<<"SELECT", " ", "id", " ", "FROM", " ", "t", " ", "WHERE", " ", "x", "=", "?">>, <<N(7)>>)

\* the comparison operators that bind one value
CmpOps == {"$ne", "$lt", "$gt", "$lte", "$gte", "$le", "$ge", "$eq", "$like", "$glob"}

\* non-empty condition mappings over the operators of build_expression
Conds ==
    { Obj(<<Prop("a", N(1))>>),
      Obj(<<Prop("a", Null)>>),
      Obj(<<Prop("a", N(1)), Prop("b", S1)>>),
      Obj(<<Prop("$x", N(1))>>),
      Obj(<<Prop("a", N(1)), Prop(".meta", N(2))>>),
      OpCond("a", "$is", Null),
      OpCond("a", "$isnot", Null),
      OpCond("a", "$in", Arr(<<N(1), N(2)>>)),
      OpCond("a", "$in", Arr(<<>>)),
      OpCond("a", "$in", SubSelect),
      OpCond("a", "$nin", Arr(<<N(1), N(2)>>)),
      OpCond("a", "$or", Arr(<<Obj(<<Prop("$lt", N(1))>>), Obj(<<Prop("$gt", N(2))>>)>>)),
      OpCond("a", "$and", Arr(<<Obj(<<Prop("$gte", N(1))>>), N(2), Null>>)),
      OpCond("a", "$or", Arr(<<Obj(<<Prop("$and", Arr(<<N(1), Obj(<<Prop("$in", Arr(<<N(1), N(2)>>))>>)>>))>>), N(3)>>)),
      OpCond("a", "$not", Obj(<<Prop("$is", Null)>>)),
      OpCond("a", "$not", Obj(<<Prop("$gt", N(1))>>)),
      OpCond("a", "$not", Obj(<<Prop("$or", Arr(<<N(1), N(2)>>))>>)),
      Obj(<<Prop("a", Obj(<<Prop("$gte", N(1)), Prop("$lt", N(2))>>)), Prop("b", N(3))>>) }
    \cup { OpCond("a", op, N(1)) : op \in CmpOps }

\* a few conditions for the methods that share the compiler with where()
FewConds ==
    { Obj(<<Prop("a", N(1))>>),
      OpCond("b", "$in", Arr(<<N(1), N(2)>>)) }

\* placeholder-free texts for the clause-keyword methods
PlainTexts == { <<"t">> }

\* mappings for values() and set()
SomeMappings ==
    { Obj(<<Prop("a", N(1)), Prop("$ignored", N(2)), Prop("fn", Fn),
            Prop("b", Undefined), Prop("c", N(3))>>),
      Obj(<<Prop("a", N(0)), Prop("b", Null)>>),
      Obj(<<>>) }

SomeOriginals == { Undefined, Obj(<<Prop("a", N(1)), Prop("b", N(3))>>) }

KeywordOps == {"insert", "delete", "update", "insertOrReplace", "insertOrIgnore",
               "from", "orderBy", "groupBy", "leftJoin"}

Rows == {0, 2}
Pages == {1, 3}

-----------------------------------------------------------------------------
(* The calls of Spec: the clause methods, on one builder                   *)

SelectCall ==
    /\ CanCall
    /\ \E args \in {<<>>} \cup { <<Str(x)>> : x \in PlainTexts } :
           Call("select", args, SQLselect(b, args), FALSE)

KeywordCall ==
    /\ CanCall
    /\ \E op \in KeywordOps, x \in PlainTexts :
           Call(op, <<Str(x)>>, SQLkeyword(b, Keyword(op), <<Str(x)>>), FALSE)

ValuesCall ==
    /\ CanCall
    /\ \E m \in SomeMappings :
           Call("values", <<m>>, SQLvalues(b, m), SQLvaluesThrows(b, m))

SetCall ==
    /\ CanCall
    /\ \E m \in SomeMappings, orig \in SomeOriginals :
           LET args == IF orig.t = "undefined" THEN <<m>> ELSE <<m, orig>>
           IN  Call("set", args, SQLset(b, args), FALSE)

WhereCall ==
    /\ CanCall
    /\ \E c \in Conds :
           Call("where", <<c>>, SQLwhere(b, <<c>>), SQLwhereThrows(b, <<c>>))

AndCall ==
    /\ CanCall
    /\ \E c \in FewConds : Call("and", <<c>>, SQLand(b, <<c>>), SQLandThrows(b, <<c>>))

OrCall ==
    /\ CanCall
    /\ \E c \in FewConds : Call("or", <<c>>, SQLor(b, <<c>>), SQLorThrows(b, <<c>>))

OnCall ==
    /\ CanCall
    /\ \E c \in FewConds : Call("on", <<c>>, SQLon(b, <<c>>), SQLonThrows(b, <<c>>))

AndWhereCall ==
    /\ CanCall
    /\ \E c \in FewConds :
           Call("andWhere", <<c>>, SQLandWhere(b, <<c>>), SQLandWhereThrows(b, <<c>>))

OrWhereCall ==
    /\ CanCall
    /\ \E c \in FewConds :
           Call("orWhere", <<c>>, SQLorWhere(b, <<c>>), SQLorWhereThrows(b, <<c>>))

LimitCall ==
    /\ CanCall
    /\ \E n \in Rows : Call("limit", <<N(n)>>, SQLlimit(b, N(n)), FALSE)

SkipTakeCall ==
    /\ CanCall
    /\ \E sk \in Rows :
           Call("skipTake", <<N(sk), N(sk + 1)>>, SQLskipTake(b, sk, sk + 1), FALSE)

TakePageCall ==
    /\ CanCall
    /\ \E pg \in Pages :
           Call("takePage", <<N(pg), N(pg + 1)>>, SQLtakePage(b, pg, pg + 1), FALSE)

MaxCalls == 2

NoStatement == [method |-> "none", sql |-> <<>>, params |-> <<>>]

\* the specifications of one builder keep no second builder and no heap
\* no Database in the run
NoDatabase == <<>>

NoObjects == objs = <<>> /\ heap = <<>> /\ was = <<>>

Init ==
    /\ b = NewSQL
    /\ pre = NewSQL
    /\ hist = <<>>
    /\ limit = MaxCalls
    /\ ran = NoStatement
    /\ logged = <<>>
    /\ db = NoDatabase
    /\ NoObjects

Next ==
    \/ SelectCall
    \/ KeywordCall
    \/ ValuesCall
    \/ SetCall
    \/ WhereCall
    \/ AndCall
    \/ OrCall
    \/ OnCall
    \/ AndWhereCall
    \/ OrWhereCall
    \/ LimitCall
    \/ SkipTakeCall
    \/ TakePageCall

Spec == Init /\ [][Next]_vars

\* C1: in every state reached from an empty builder through the clause
\* methods (given condition mappings and placeholder-free text), the number
\* of ? in text equals the number of parameters.
C1_PlaceholdersMatchParams == Count(b.sql, "?") = Len(b.params)

\* a where() with an IN list has been appended after another clause
C1_Witness ==
    /\ Len(hist) = 2
    /\ last.op = "where"
    /\ ~last.threw
    /\ Len(b.params) >= 3

-----------------------------------------------------------------------------
(* Database.findOne, findMany and delete: each builds a statement and      *)
(* hands it to get, all or run.                                            *)

\* SQL.select().from(table).where(condition)
FindStatement(table, condition) ==
    SQLwhere(SQLkeyword(SQLselect(SQLnew(<<>>), <<>>), Keyword("from"), <<table>>),
             <<condition>>)

\* SQL.delete(table).where(condition)
DeleteStatement(table, condition) ==
    SQLwhere(SQLkeyword(SQLnew(<<>>), Keyword("delete"), <<table>>), <<condition>>)

StatementThrows(stmt, condition) == SQLwhereThrows(stmt, <<condition>>)

DbCall(op, args, method, stmt, threw) ==
    /\ Len(hist) < limit
    /\ hist' = Append(hist, [op |-> op, args |-> args, threw |-> threw])
    /\ pre' = b
    /\ ran' = IF threw THEN ran
              ELSE [method |-> method, sql |-> stmt.sql, params |-> stmt.params]
    /\ UNCHANGED <<b, limit, aliasVars, logged, db>>

-----------------------------------------------------------------------------
(* SpecWhere: where, andWhere and orWhere given a condition or none, and   *)
(* the database calls that end in where(condition)                         *)

OneKeyConds == { Obj(<<Prop("a", N(1))>>), Obj(<<Prop("b", N(2))>>) }

\* the arguments of a call with a one-key condition, or with none
MaybeCond == { <<c>> : c \in OneKeyConds } \cup { <<>>, <<Undefined>> }

NewCall ==
    /\ hist = <<>>
    /\ \E x \in { <<"SELECT", " ", "*", " ", "FROM", " ", "t">> } :
         Call("new", <<Str(x)>>, SQLnew(<<Str(x)>>), FALSE)

WhereMaybeCall ==
    /\ CanCall
    /\ \E args \in MaybeCond \cup { <<Null>> } :
           Call("where", args, SQLwhere(b, args), SQLwhereThrows(b, args))

AndWhereMaybeCall ==
    /\ CanCall
    /\ \E args \in MaybeCond :
           Call("andWhere", args, SQLandWhere(b, args), SQLandWhereThrows(b, args))

OrWhereMaybeCall ==
    /\ CanCall
    /\ \E args \in { <<Obj(<<Prop("a", N(1))>>)>>, <<>> } :
           Call("orWhere", args, SQLorWhere(b, args), SQLorWhereThrows(b, args))

Tables == { Str(<<"t">>) }

\* the arguments after the table: no condition, undefined, or a mapping
FindConds == { <<>>, <<Undefined>>, <<Obj(<<Prop("a", N(1))>>)>> }

FindOneCall ==
    /\ CanCall
    /\ \E t \in Tables, c \in FindConds :
           DbCall("findOne", <<t>> \o c, "get", FindStatement(t, Arg(c, 1)),
                  StatementThrows(FindStatement(t, Undefined), Arg(c, 1)))

FindManyCall ==
    /\ CanCall
    /\ \E t \in Tables, c \in FindConds :
           DbCall("findMany", <<t>> \o c, "all", FindStatement(t, Arg(c, 1)),
                  StatementThrows(FindStatement(t, Undefined), Arg(c, 1)))

DeleteCall ==
    /\ CanCall
    /\ \E t \in Tables, c \in FindConds :
           DbCall("delete", <<t>> \o c, "run", DeleteStatement(t, Arg(c, 1)),
                  StatementThrows(DeleteStatement(t, Undefined), Arg(c, 1)))

MaxWhereCalls == 3

InitWhere ==
    /\ b = NewSQL
    /\ pre = NewSQL
    /\ hist = <<>>
    /\ limit = MaxWhereCalls
    /\ ran = NoStatement
    /\ logged = <<>>
    /\ db = NoDatabase
    /\ NoObjects

NextWhere ==
    \/ NewCall
    \/ WhereMaybeCall
    \/ AndWhereMaybeCall
    \/ OrWhereMaybeCall
    \/ FindOneCall
    \/ FindManyCall
    \/ DeleteCall

SpecWhere == InitWhere /\ [][NextWhere]_vars

\* the calls made so far are all among ops (after the constructor, if any)
OnlyOps(ops) == \A i \in 1..Len(hist) : hist[i].op \in ops

\* C2: over andWhere and orWhere calls on a builder without WHERE, the first
\* condition emitted follows the keyword WHERE, and every AND and OR in text
\* has a WHERE before it.
C2_ConnectivesFollowWhere ==
    (OnlyOps({"new", "andWhere", "orWhere"}) /\ \A i \in 1..Len(hist) : ~hist[i].threw) =>
        /\ \A i \in 1..Len(b.sql) :
              b.sql[i] \in {"AND", "OR"} => \E j \in 1..(i - 1) : b.sql[j] = "WHERE"
        /\ \A i \in 1..Len(b.sql) :
              (b.sql[i] = "(" /\ \A j \in 1..(i - 1) : b.sql[j] # "(")
                  => (i > 2 /\ b.sql[i - 2] = "WHERE")

\* C7: n >= 1 andWhere calls with one-key equality mappings on an empty
\* builder give text that starts with its only WHERE, holds n-1 AND, and
\* parameters equal to the bound values in call order.
C7_OneWhereThenAnds ==
    (Len(hist) >= 1 /\ \A i \in 1..Len(hist) :
        hist[i].op = "andWhere" /\ hist[i].args \in { <<c>> : c \in OneKeyConds })
    =>  /\ b.sql[1] = "WHERE"
        /\ Count(b.sql, "WHERE") = 1
        /\ Count(b.sql, "AND") = Len(hist) - 1
        /\ b.params = [i \in 1..Len(hist) |-> hist[i].args[1].o[1].v]

C7_Witness ==
    /\ Len(hist) = 3
    /\ \A i \in 1..3 : hist[i].op = "andWhere" /\ ~hist[i].threw
    /\ hist[1].args = <<Obj(<<Prop("a", N(1))>>)>>
    /\ hist[2].args = <<Obj(<<Prop("b", N(2))>>)>>
    /\ hist[3].args = <<Obj(<<Prop("a", N(1))>>)>>

\* C8: where() with no argument, undefined or null changes nothing of the
\* builder and does not throw; findOne, findMany and delete given no
\* condition run a statement without WHERE.
C8_WhereWithoutConditionIsNoop ==
    /\ (Len(hist) > 0 /\ last.op = "where"
            /\ last.args \in { <<>>, <<Undefined>>, <<Null>> })
        => (b = pre /\ ~last.threw)
    /\ (Len(hist) > 0 /\ last.op \in {"findOne", "findMany", "delete"}
            /\ (Len(last.args) = 1 \/ last.args[2] \in {Undefined, Null}))
        => /\ ~last.threw
           /\ Count(ran.sql, "WHERE") = 0
           /\ ran.params = <<>>
           /\ ran.sql = IF last.op = "delete"
                        THEN <<"DELETE", " ", "FROM", " ", "t">>
                        ELSE <<"SELECT", " ", "*", " ", "FROM", " ", "t">>

\* where(null) called on a builder that holds a WHERE clause
C8_Witness ==
    /\ Len(hist) > 1
    /\ last.op = "where"
    /\ last.args = <<Null>>
    /\ pre.hasWhere
    /\ Count(pre.sql, "WHERE") = 1

-----------------------------------------------------------------------------
(* SpecAppend: the constructor and append, given text with parameters in   *)
(* every shape of the argument list, or another builder                    *)

\* text fragments: one character, one word of two characters, an expression
Frags == { <<"(">>, <<"ab">>, <<"x", "=", "?">> }

ParamLists == { <<>>, <<N(1)>> }

\* builders passed as arguments, the empty builder among them
Builders == { SqlVal(x, a) : x \in Frags \cup {<<>>}, a \in ParamLists }

\* the arguments after the text
ParamShapes ==
    { <<>>, <<Arr(<<N(1), N(2)>>)>>, <<Arr(<<N(1)>>), N(3)>>,
      <<N(1), N(2)>>, <<Null, N(2)>>, <<Undefined, N(2)>> }

NewFromCall ==
    /\ hist = <<>>
    /\ \E s \in Builders :
         Call("new", <<Str(s.x), Arr(s.a)>>, SQLnew(<<Str(s.x), Arr(s.a)>>), FALSE)

AppendTextCall ==
    /\ CanCall
    /\ \E x \in Frags, ps \in ParamShapes :
           Call("append", <<Str(x)>> \o ps, SQLappend(b, <<Str(x)>> \o ps), FALSE)

AppendBuilderCall ==
    /\ CanCall
    /\ \E s \in Builders : Call("append", <<s>>, SQLappend(b, <<s>>), FALSE)

MaxAppendCalls == 3

InitAppend ==
    /\ b = NewSQL
    /\ pre = NewSQL
    /\ hist = <<>>
    /\ limit = MaxAppendCalls
    /\ ran = NoStatement
    /\ logged = <<>>
    /\ db = NoDatabase
    /\ NoObjects

NextAppend ==
    \/ NewFromCall
    \/ AppendTextCall
    \/ AppendBuilderCall

SpecAppend == InitAppend /\ [][NextAppend]_vars

\* an append call given text and a parameter array
IsTextAppend(c) ==
    /\ c.op = "append"
    /\ Len(c.args) = 2
    /\ c.args[1].t = "string"
    /\ c.args[2].t = "array"

\* C3: two non-empty fragments A and B appended to an empty builder give the
\* text A, one space, B and the parameters of A followed by those of B.
C3_TwoFragments ==
    (Len(hist) = 2 /\ IsTextAppend(hist[1]) /\ IsTextAppend(hist[2]))
    =>  /\ b.sql = hist[1].args[1].x \o <<" ">> \o hist[2].args[1].x
        /\ b.params = hist[1].args[2].a \o hist[2].args[2].a

\* C4: append(text, x, ...) extends parameters by the elements of x when x
\* is an array, and otherwise by every argument after the first.
C4_ParamsExtended ==
    (Len(hist) > 0 /\ last.op = "append" /\ last.args[1].t = "string")
    =>  b.params = pre.params \o
            (IF Len(last.args) >= 2 /\ last.args[2].t = "array"
             THEN last.args[2].a
             ELSE Tail(last.args))

\* the builder a value was taken from
FromValue(v) == SQLnew(<<Str(v.x), Arr(v.a)>>)

\* C5: A.append(B).append(C) and A.append(B2.append(C)), B2 a copy of B,
\* end with the same text and parameters.
C5_Associative ==
    (Len(hist) = 3 /\ hist[1].op = "new"
        /\ hist[2].op = "append" /\ hist[2].args[1].t = "sql"
        /\ hist[3].op = "append" /\ hist[3].args[1].t = "sql")
    =>  LET A  == SQLnew(hist[1].args)
            B2 == SQLnew(<<hist[2].args[1]>>)
            BC == SQLappend(B2, <<hist[3].args[1]>>)
            r  == SQLappend(A, <<AsValue(BC)>>)
        IN  b.sql = r.sql /\ b.params = r.params

-----------------------------------------------------------------------------
(* SpecInsertUpdate: values(mapping) and set(mapping, originalValues), on  *)
(* every mapping of up to MaxKeys properties                               *)

MaxKeys == 2

ColumnKeys == {"a", "b", "$ignored", ".meta"}

ColumnValues == { N(0), N(1), Str(<<>>), Null, Undefined, Fn }

Props == { Prop(k, v) : k \in ColumnKeys, v \in ColumnValues } \cup { Inherited("p", N(1)) }

\* mappings: distinct keys, the inherited properties enumerated last
Mappings ==
    UNION { { m \in [1..n -> Props] :
                \A i, j \in 1..n :
                    /\ (i # j => m[i].k # m[j].k)
                    /\ (i < j /\ ~m[i].own => ~m[j].own) }
            : n \in 0..MaxKeys }

\* original values: none, or a mapping that may hold a and may hold b
Originals ==
    { Undefined } \cup
    { Obj(SelectSeq(<<Prop("a", va), Prop("b", vb)>>, LAMBDA p : p.v.t # "undefined")) :
        va \in { Undefined, N(0), N(1), Str(<<>>), Null }, vb \in { Undefined, N(1) } }

ValuesAnyCall ==
    /\ CanCall
    /\ \E m \in Mappings :
           Call("values", <<Obj(m)>>, SQLvalues(b, Obj(m)), SQLvaluesThrows(b, Obj(m)))

SetAnyCall ==
    /\ CanCall
    /\ \E m \in Mappings, orig \in Originals :
           LET args == IF orig.t = "undefined" THEN <<Obj(m)>> ELSE <<Obj(m), orig>>
           IN  Call("set", args, SQLset(b, args), FALSE)

\* the builder is empty, or holds UPDATE t
InitInsertUpdate ==
    /\ b \in { NewSQL, SQLkeyword(NewSQL, Keyword("update"), <<Str(<<"t">>)>>) }
    /\ pre = NewSQL
    /\ hist = <<>>
    /\ limit = 1
    /\ ran = NoStatement
    /\ logged = <<>>
    /\ db = NoDatabase
    /\ NoObjects

NextInsertUpdate ==
    \/ ValuesAnyCall
    \/ SetAnyCall

SpecInsertUpdate == InitInsertUpdate /\ [][NextInsertUpdate]_vars

\* text after a fragment was appended with one space to what there was
Extended(before, frag) == IF before = <<>> THEN frag ELSE before \o <<" ">> \o frag

\* a key that names a column: it starts with neither $ nor .
IsColumnKey(k) == k \notin {"$ignored", ".meta"}

\* C9: values(mapping) emits one quoted column and one placeholder for
\* exactly the own keys that do not start with $ or . and whose value is
\* neither a function nor undefined, in key order, and appends those values.
C9_ValuesColumns ==
    (Len(hist) > 0 /\ last.op = "values")
    =>  LET m    == last.args[1].o
            Kept(p) == p.own /\ IsColumnKey(p.k) /\ p.v \notin {Fn, Undefined}
            kept == SelectSeq(m, Kept)
            cols == Join([i \in 1..Len(kept) |-> <<BQ, kept[i].k, BQ>>], <<",">>)
            qs   == Join([i \in 1..Len(kept) |-> <<"?">>], <<",">>)
        IN  /\ ~last.threw
            /\ b.sql = Extended(pre.sql,
                        <<"(">> \o cols \o <<")", " ", "VALUES", " ", "(">> \o qs \o <<")">>)
            /\ b.params = pre.params \o [i \in 1..Len(kept) |-> kept[i].v]
            /\ Count(b.sql, BQ) = 2 * Len(kept)
            /\ Count(b.sql, "?") = Len(kept)
            /\ Len(b.params) = Len(kept)

\* values({$ignored: .., a: null}): the null is kept, the $ key is not
C9_Witness ==
    /\ Len(hist) = 1
    /\ last.op = "values"
    /\ Len(last.args[1].o) = 2
    /\ last.args[1].o[1].k = "$ignored"
    /\ last.args[1].o[2] = Prop("a", Null)
    /\ b.params = <<Null>>

\* C10: set(values, originalValues) omits a column exactly when
\* originalValues holds an equal value for its key; every other retained
\* key yields `col` = ? and its new value, in key order.
C10_SetOmitsUnchanged ==
    (Len(hist) > 0 /\ last.op = "set")
    =>  LET m    == last.args[1].o
            orig == Arg(last.args, 2)
            Retained(p) == p.own /\ IsColumnKey(p.k) /\ p.v # Fn
            Unchanged(p) == \E i \in 1..Len(orig.o) : orig.o[i].k = p.k /\ orig.o[i].v = p.v
            Emitted(p) == Retained(p) /\ ~Unchanged(p)
            cols == SelectSeq(m, Emitted)
            list == Join([i \in 1..Len(cols) |-> <<BQ, cols[i].k, BQ, " ", "=", " ", "?">>], <<",">>)
        IN  /\ b.sql = Extended(pre.sql, <<"SET">>) \o <<" ">> \o list
            /\ b.params = pre.params \o [i \in 1..Len(cols) |-> cols[i].v]

-----------------------------------------------------------------------------
(* SpecAlias: two builders R and S whose params are arrays on a heap.      *)
(* this.params.push(v) changes the array in place; this.params =           *)
(* this.params.concat(p) makes this.params a new array.                    *)

\* the builder who, passed as an argument
Ref(who) == Val("ref", 0, <<who>>, <<>>, <<>>)

\* the builder obj with its array read from the heap
Deref(o) == [o EXCEPT !.params = heap[o.params]]

Content(who) == [sql |-> objs[who].sql, params |-> heap[objs[who].params]]

ConcatShares(own, arg, fresh) == IF arg # 0 THEN arg ELSE fresh

\* the address of this.params.concat(params): a new array, whatever the
\* address own of this.params and arg of params (0: a literal)
ConcatAddress(own, arg, fresh) == fresh

HCall(who, op, args, threw) ==
    /\ hist' = Append(hist, [op |-> op, args |-> args, threw |-> threw, on |-> who])
    /\ was' = [w \in {"R", "S"} |-> Content(w)]
    /\ UNCHANGED <<b, pre, limit, ran, logged, db>>

\* the call left the builder nb, and assigned this.params the result of concat
StoreConcat(who, nb, arg) ==
    LET at == ConcatAddress(objs[who].params, arg, Len(heap) + 1)
    IN  /\ heap' = IF at > Len(heap) THEN Append(heap, nb.params)
                   ELSE [heap EXCEPT ![at] = nb.params]
        /\ objs' = [objs EXCEPT ![who] = [nb EXCEPT !.params = at]]

\* the call left the builder nb, and changed this.params in place, if at all
StoreInPlace(who, nb) ==
    /\ heap' = [heap EXCEPT ![objs[who].params] = nb.params]
    /\ objs' = [objs EXCEPT ![who] = [nb EXCEPT !.params = objs[who].params]]

ComposeOps == {"append", "new", "where", "and", "or", "on", "in", "parens"}

\* R after the call op given the builder S as its argument
Composed(op, r, sv) ==
    CASE op = "append" -> SQLappend(r, <<sv>>)
      [] op = "new"    -> SQLnew(<<sv>>)
      [] op = "where"  -> SQLwhere(r, <<sv>>)
      [] op = "and"    -> SQLand(r, <<sv>>)
      [] op = "or"     -> SQLor(r, <<sv>>)
      [] op = "on"     -> SQLon(r, <<sv>>)
      [] op = "in"     -> SQLin(r, <<sv>>)
      [] op = "parens" -> SQLparens(r, <<sv>>)

\* R.op(S): every one of these ends in this.append(S.sql, S.params)
ComposeCall ==
    /\ CanCall
    /\ \E op \in ComposeOps :
         /\ StoreConcat("R", Composed(op, Deref(objs["R"]), AsValue(Deref(objs["S"]))),
                        objs["S"].params)
         /\ HCall("R", op, <<Ref("S")>>, FALSE)

\* {b: 3, a: {$in: list}, c: {$lt: 4}}
InBetween(list) ==
    Obj(<<Prop("b", N(3)), Prop("a", Obj(<<Prop("$in", list)>>)),
          Prop("c", Obj(<<Prop("$lt", N(4))>>))>>)

\* R.where({b: 3, a: {$in: S}, c: {$lt: 4}}): the compiler pushes the
\* params of S onto its own array; R is assigned the result of concat
WhereInBuilderCall ==
    /\ CanCall
    /\ LET cond == InBetween(AsValue(Deref(objs["S"])))
       IN  /\ StoreConcat("R", SQLwhere(Deref(objs["R"]), <<cond>>), 0)
           /\ HCall("R", "whereIn", <<Ref("S")>>, SQLwhereThrows(Deref(objs["R"]), <<cond>>))

\* R.where({b: 3, a: {$in: [..]}, c: {$lt: 4}})
WhereInArrayCall ==
    /\ CanCall
    /\ \E l \in {<<>>, <<N(1), N(2)>>} :
         LET cond == InBetween(Arr(l))
         IN  /\ StoreConcat("R", SQLwhere(Deref(objs["R"]), <<cond>>), 0)
             /\ HCall("R", "whereIn", <<Arr(l)>>, SQLwhereThrows(Deref(objs["R"]), <<cond>>))

\* who.param(v)
ParamCall ==
    /\ CanCall
    /\ \E who \in {"R", "S"}, v \in {N(9)} :
         /\ StoreInPlace(who, SQLparam(Deref(objs[who]), v))
         /\ HCall(who, "param", <<v>>, FALSE)

\* who.append(text, [v])
AppendArrayCall ==
    /\ CanCall
    /\ \E who \in {"R", "S"}, x \in {<<"y", "=", "?">>} :
         /\ StoreConcat(who, SQLappend(Deref(objs[who]), <<Str(x), Arr(<<N(5)>>)>>), 0)
         /\ HCall(who, "append", <<Str(x), Arr(<<N(5)>>)>>, FALSE)

\* who.append(text): this.params is not assigned
AppendPlainCall ==
    /\ CanCall
    /\ \E who \in {"R", "S"}, x \in {<<"z">>} :
         /\ StoreInPlace(who, SQLappend(Deref(objs[who]), <<Str(x)>>))
         /\ HCall(who, "append", <<Str(x)>>, FALSE)

MaxAliasCalls == 3

AliasReceivers == { SqlVal(<<>>, <<>>), SqlVal(<<"ab">>, <<N(1)>>) }

AliasArguments == { SqlVal(<<>>, <<>>), SqlVal(<<"x", "=", "?">>, <<N(1)>>), SqlVal(<<"(">>, <<>>) }

\* R = new SQL(..), S = new SQL(..): each with an array of its own
InitAlias ==
    /\ b = NewSQL
    /\ pre = NewSQL
    /\ hist = <<>>
    /\ limit = MaxAliasCalls
    /\ ran = NoStatement
    /\ logged = <<>>
    /\ db = NoDatabase
    /\ \E r \in AliasReceivers, s \in AliasArguments :
         /\ heap = <<r.a, s.a>>
         /\ objs = [w \in {"R", "S"} |->
                      IF w = "R" THEN [SQLnew(<<Str(r.x), Arr(r.a)>>) EXCEPT !.params = 1]
                      ELSE [SQLnew(<<Str(s.x), Arr(s.a)>>) EXCEPT !.params = 2]]
    /\ was = [w \in {"R", "S"} |-> [sql |-> <<>>, params |-> <<>>]]

NextAlias ==
    \/ ComposeCall
    \/ ParamCall
    \/ AppendArrayCall
    \/ AppendPlainCall
    \/ WhereInBuilderCall
    \/ WhereInArrayCall

SpecAlias == InitAlias /\ [][NextAlias]_vars

\* C6: a call on R given S leaves the text and parameters of S as they were,
\* and so does every later call on R; no later call on S changes the text
\* or the parameters of R.
C6_AppendCopies ==
    Len(hist) > 0 =>
        /\ (last.op \in ComposeOps /\ last.args = <<Ref("S")>>) => Content("S") = was["S"]
        /\ (\E i \in 1..(Len(hist) - 1) : hist[i].args = <<Ref("S")>>) =>
              /\ last.on = "R" => Content("S") = was["S"]
              /\ last.on = "S" => Content("R") = was["R"]

\* R, empty, took S; then R.param(v) pushed onto the array of R
C6_Witness ==
    /\ Len(hist) = 2
    /\ hist[1].args = <<Ref("S")>>
    /\ hist[1].op = "append"
    /\ hist[2].op = "param"
    /\ hist[2].on = "R"
    /\ was["R"].params = was["S"].params
    /\ Len(was["S"].params) = 1
    /\ Content("R").params # Content("S").params

-----------------------------------------------------------------------------
(* select, in and parens on a builder                                      *)

MaxClauseCalls == 2

\* the builders the calls are made on
ClauseReceivers ==
    { NewSQL,
      SQLnew(<<Str(<<"ab">>)>>),
      SQLnew(<<Str(<<"x", "=", "?">>), N(1)>>) }

\* arrays of column names
ColumnArrays == { <<>>, <<Str(<<"name">>)>>, <<Str(<<"name">>), Str(<<"email">>)>> }

\* mappings from alias to expression
AliasMappings ==
    { Obj(<<Prop("userName", Str(<<"name">>))>>),
      Obj(<<Prop("userName", Str(<<"name">>)), Prop("n", Str(<<"COUNT(*)">>))>>) }

\* arrays of values for in()
ValueArrays == { <<>>, <<N(10)>>, <<N(10), N(20), N(30)>>, <<S1, Null>> }

\* builders given to parens() and in()
Contents ==
    { SqlVal(<<"SELECT", " ", "id", " ", "FROM", " ", "t">>, <<>>),
      SubSelect,
      SqlVal(<<"x">>, <<>>) }

SelectNoneCall ==
    /\ CanCall
    /\ Call("select", <<>>, SQLselect(b, <<>>), FALSE)

SelectArrayCall ==
    /\ CanCall
    /\ \E cols \in ColumnArrays :
           Call("select", <<Arr(cols)>>, SQLselect(b, <<Arr(cols)>>), FALSE)

SelectMappingCall ==
    /\ CanCall
    /\ \E m \in AliasMappings : Call("select", <<m>>, SQLselect(b, <<m>>), FALSE)

InArrayCall ==
    /\ CanCall
    /\ \E vs \in ValueArrays : Call("in", <<Arr(vs)>>, SQLin(b, <<Arr(vs)>>), FALSE)

InBuilderCall ==
    /\ CanCall
    /\ \E c \in Contents : Call("in", <<c>>, SQLin(b, <<c>>), FALSE)

ParensCall ==
    /\ CanCall
    /\ \E c \in Contents : Call("parens", <<c>>, SQLparens(b, <<c>>), FALSE)

InitClause ==
    /\ b \in ClauseReceivers
    /\ pre = b
    /\ hist = <<>>
    /\ limit = MaxClauseCalls
    /\ ran = NoStatement
    /\ logged = <<>>
    /\ db = NoDatabase
    /\ NoObjects

NextClause ==
    \/ SelectNoneCall
    \/ SelectArrayCall
    \/ SelectMappingCall
    \/ InArrayCall
    \/ InBuilderCall
    \/ ParensCall

SpecClause == InitClause /\ [][NextClause]_vars

\* the texts of an array of strings
Texts(a) == [i \in 1..Len(a) |-> a[i].x]

\* C11: select() appends SELECT *; select(array of names) appends SELECT and
\* the names joined by commas, in order and without aliases; select(mapping)
\* appends SELECT and one "expression as `alias`" per key, in key order; no
\* form adds a parameter.  (Stated for receivers whose text is not one
\* character long.)
C11_SelectForms ==
    (Len(hist) > 0 /\ last.op = "select" /\ StrLen(pre.sql) # 1)
    =>  LET a0 == Arg(last.args, 1)
            list == CASE Len(last.args) = 0 -> <<"*">>
                      [] a0.t = "array" -> Join(Texts(a0.a), <<",", " ">>)
                      [] OTHER ->
                           Join([i \in 1..Len(a0.o) |->
                                   a0.o[i].v.x \o <<" ", "as", " ", BQ, a0.o[i].k, BQ>>],
                                <<",", " ">>)
        IN  /\ b.sql = Extended(Extended(pre.sql, <<"SELECT">>), list)
            /\ b.params = pre.params

\* C12: in(array) appends the keyword IN to text and the elements of the
\* array, in order, to parameters; the elements do not become part of text.
C12_InArray ==
    (Len(hist) > 0 /\ last.op = "in" /\ last.args[1].t = "array")
    =>  /\ b.sql = Extended(pre.sql, <<"IN">>)
        /\ b.params = pre.params \o last.args[1].a

\* C13: parens(content), and in(builder) after its IN, appends "(", the text
\* of the content and ")" in this order, and appends the parameters of the
\* content after those of the receiver, whatever the receiver holds.
C13_ParensWraps ==
    (Len(hist) > 0 /\ last.args # <<>> /\ last.args[1].t = "sql"
        /\ last.op \in {"parens", "in"})
    =>  LET c    == last.args[1]
            base == IF last.op = "in" THEN Extended(pre.sql, <<"IN">>) ELSE pre.sql
        IN  /\ b.sql = Extended(Extended(Extended(base, <<"(">>), c.x), <<")">>)
            /\ b.params = pre.params \o c.a

-----------------------------------------------------------------------------
(* toString and log                                                        *)

\* typeof(pv)
TypeOf(pv) ==
    IF pv.t \in {"array", "object", "buffer", "sql", "null"} THEN "object" ELSE pv.t

\* a quoteString that leaves inner quotes alone
QuoteStringPlain(str) == <<"'">> \o str \o <<"'">>

\* quoteString(str): '...' with every ' of str replaced by ''
QuoteString(str) ==
    <<"'">> \o Join([i \in 1..Len(str) |->
                       IF str[i] = "'" THEN <<"'", "'">> ELSE <<str[i]>>], <<>>)
           \o <<"'">>

\* a rendering that prints what it cannot render instead of throwing
RenderParamLenient(pv) ==
    [v |-> IF pv.t \in {"undefined", "null"} THEN <<"NULL">> ELSE ToText(pv),
     threw |-> FALSE, type |-> ""]

\* the body of the replace callback for one parameter: the text returned,
\* or the throw with the typeof its message names
RenderParam(pv) ==
    IF pv.t \in {"undefined", "null"}
    THEN [v |-> <<"NULL">>, threw |-> FALSE, type |-> ""]
    ELSE CASE TypeOf(pv) = "string" ->
                [v |-> QuoteString(pv.x), threw |-> FALSE, type |-> ""]
           [] pv.t = "buffer" ->
                [v |-> <<"X", "'">> \o pv.x \o <<"'">>, threw |-> FALSE, type |-> ""]
           [] TypeOf(pv) \in {"number", "bigint"} ->
                [v |-> <<NumText(pv.n)>>, threw |-> FALSE, type |-> ""]
           [] OTHER ->
                [v |-> <<>>, threw |-> TRUE, type |-> TypeOf(pv)]

\* this.sql.replace(/\?/g, callback) from the left, ps the parameters not
\* yet consumed
RECURSIVE Replace(_, _)
Replace(x, ps) ==
    IF x = <<>> THEN [v |-> <<>>, threw |-> FALSE, type |-> ""]
    ELSE IF Head(x) = "?" /\ ps # <<>>
    THEN LET r == RenderParam(Head(ps))
         IN  IF r.threw THEN r
             ELSE LET rest == Replace(Tail(x), Tail(ps))
                  IN  IF rest.threw THEN rest ELSE [rest EXCEPT !.v = r.v \o @]
    ELSE LET rest == Replace(Tail(x), ps)
         IN  IF rest.threw THEN rest ELSE [rest EXCEPT !.v = <<Head(x)>> \o @]

\* SQL.toString(): [v, threw, type]
SQLtoString(bld) == Replace(bld.sql, bld.params)

\* the values bound as parameters
RenderValues ==
    { N(5), N(12), Str(<<"O", "'", "B">>), Str(<<"?">>), Null, Undefined,
      Bool(TRUE), Obj(<<>>), Arr(<<N(1)>>), Buffer(<<"0a">>), Fn }

RenderParamLists ==
    {<<>>} \cup { <<v>> : v \in RenderValues }
           \cup { <<v, w>> : v \in RenderValues, w \in {N(5), Str(<<"O", "'", "B">>), Bool(TRUE), Null} }

MaxTextLen == 3

TextUnits == { "a", "?", "'" }

RenderTexts == UNION { [1..n -> TextUnits] : n \in 0..MaxTextLen }

\* one call of a method that returns or throws: the call is recorded with
\* what it returned (ret) and the typeof its error names (type)
Returned(op, args, r) ==
    /\ CanCall
    /\ hist' = Append(hist, [op |-> op, args |-> args, threw |-> r.threw,
                             ret |-> r.v, type |-> r.type])
    /\ pre' = b
    /\ UNCHANGED <<b, limit, ran, aliasVars, db>>

\* b.toString()
ToStringCall ==
    /\ CanCall
    /\ Returned("toString", <<>>, SQLtoString(b))
    /\ UNCHANGED logged

\* b.log(to): to(this.toString()), to being console.log when not given
LogCall ==
    /\ CanCall
    /\ \E to \in {Undefined, Fn} :
         LET r == SQLtoString(b)
         IN  /\ Returned("log", IF to = Undefined THEN <<>> ELSE <<to>>, r)
             /\ logged' = IF r.threw THEN logged ELSE Append(logged, r.v)

\* new SQL(text, params), then one call
InitRender ==
    /\ \E x \in RenderTexts, ps \in RenderParamLists :
           b = [NewSQL EXCEPT !.sql = x, !.params = ps]
    /\ pre = b
    /\ hist = <<>>
    /\ limit = 1
    /\ ran = NoStatement
    /\ logged = <<>>
    /\ db = NoDatabase
    /\ NoObjects

NextRender ==
    \/ ToStringCall
    \/ LogCall

SpecRender == InitRender /\ [][NextRender]_vars

\* the parameters matched to a placeholder of the builder
Matched(bld) ==
    LET n == Count(bld.sql, "?")
    IN  SubSeq(bld.params, 1, IF n < Len(bld.params) THEN n ELSE Len(bld.params))

\* the values the claim gives a rendering for
HasRendering(v) == v.t \in {"null", "undefined", "number", "string"}

\* the text the claim describes: unit i of text, or the rendering of the
\* k-th parameter where unit i is the k-th ?
Piece(x, ps, i) ==
    LET k  == Count(SubSeq(x, 1, i), "?")
    IN  IF x[i] # "?" \/ k > Len(ps) THEN <<x[i]>>
        ELSE IF ps[k].t \in {"null", "undefined"} THEN <<"NULL">>
        ELSE IF ps[k].t = "number" THEN <<NumText(ps[k].n)>>
        ELSE <<"'">> \o Join([j \in 1..Len(ps[k].x) |->
                                IF ps[k].x[j] = "'" THEN <<"'", "'">> ELSE <<ps[k].x[j]>>], <<>>)
                    \o <<"'">>

\* C14: toString returns text with the k-th ? replaced by the rendering of
\* the k-th parameter (NULL, the digits, or the quoted string with inner
\* quotes doubled), every ? past the parameters left as ?, every other
\* character unchanged, and the builder not modified.
C14_ToStringRenders ==
    (Len(hist) > 0 /\ last.op = "toString"
        /\ \A i \in 1..Len(Matched(pre)) : HasRendering(Matched(pre)[i]))
    =>  /\ ~last.threw
        /\ last.ret = Join([i \in 1..Len(pre.sql) |-> Piece(pre.sql, pre.params, i)], <<>>)
        /\ b = pre

\* two placeholders and one parameter: a string with a quote in it
C14_Witness ==
    /\ Len(hist) = 1
    /\ last.op = "toString"
    /\ pre.sql = <<"?", "a", "?">>
    /\ pre.params = <<Str(<<"O", "'", "B">>)>>
    /\ last.ret = <<"'", "O", "'", "'", "B", "'", "a", "?">>

\* the parameters matched to a placeholder that are booleans or objects
\* other than a Buffer
Unrenderable(v) == v.t \in {"boolean", "object", "array", "sql"}

\* C15: toString and log throw, naming the runtime type, whenever a
\* parameter matched to a placeholder is a boolean or an object that is not
\* a byte sequence; nothing is rendered, the sink of log is not called and
\* the builder is unchanged.
C15_ToStringThrows ==
    (Len(hist) > 0 /\ last.op \in {"toString", "log"}
        /\ \E i \in 1..Len(Matched(pre)) : Unrenderable(Matched(pre)[i]))
    =>  /\ last.threw
        /\ last.ret = <<>>
        /\ \E i \in 1..Len(Matched(pre)) :
              /\ ~HasRendering(Matched(pre)[i])
              /\ Matched(pre)[i].t # "buffer"
              /\ last.type = TypeOf(Matched(pre)[i])
        /\ last.type \in {"boolean", "object", "function"}
        /\ logged = <<>>
        /\ db = NoDatabase
        /\ b = pre

\* log() on a builder whose second placeholder is matched to a boolean
C15_Witness ==
    /\ Len(hist) = 1
    /\ last.op = "log"
    /\ Len(Matched(pre)) = 2
    /\ Matched(pre)[2] = Bool(TRUE)
    /\ last.threw
    /\ last.type = "boolean"

-----------------------------------------------------------------------------
(* The condition compiler on its own: SQL.buildCondition(mapping), and     *)
(* where(mapping) on a builder                                             *)

MaxList == 2

\* the arrays given under $in and $nin
Lists == UNION { [1..n -> {N(1), N(2)}] : n \in 0..MaxList }

\* { op1: v1, op2: v2 }
TwoOps(op1, v1, op2, v2) == Obj(<<Prop(op1, v1), Prop(op2, v2)>>)

\* value objects with one operator, and scalars
SimpleExprs ==
    { N(1), S1, Null }
    \cup { Obj(<<Prop(op, v)>>) : op \in CmpOps, v \in {N(1), S1} }
    \cup { Obj(<<Prop("$is", Null)>>), Obj(<<Prop("$isnot", Null)>>),
           Obj(<<Prop("$in", SubSelect)>>) }
    \cup { Obj(<<Prop(op, Arr(l))>>) : op \in {"$in", "$nin"}, l \in Lists }

\* value objects with two comparison operators
TwoOpExprs ==
    { TwoOps(op1, N(18), op2, N(65)) : op1 \in {"$gte", "$gt", "$ge", "$eq", "$like"},
                                        op2 \in {"$lt", "$lte", "$le", "$ne"} }

\* value objects with two operators of different kinds, in both orders of
\* their keys, and value objects with no operator
SeveralOps ==
    { TwoOps("$eq", N(1), "$like", S1),
      TwoOps("$glob", S1, "$eq", N(1)),
      TwoOps("$like", S1, "$glob", S1),
      TwoOps("$in", Arr(<<N(1), N(2)>>), "$is", Null),
      TwoOps("$isnot", Null, "$in", Arr(<<N(1)>>)),
      TwoOps("$or", Arr(<<N(1), N(2)>>), "$in", Arr(<<N(3)>>)),
      TwoOps("$or", Arr(<<N(1), N(2)>>), "$nin", Arr(<<N(3)>>)),
      TwoOps("$not", Obj(<<Prop("$gt", N(1))>>), "$and", Arr(<<N(1), N(2)>>)),
      TwoOps("$and", Arr(<<N(1), N(2)>>), "$or", Arr(<<N(3)>>)),
      TwoOps("$not", Obj(<<Prop("$is", Null)>>), "$lt", N(5)) }

NoOps == { Obj(<<Prop("x", N(1))>>), Obj(<<>>), Obj(<<Prop("gt", N(1)), Prop("lt", N(2))>>) }

\* the sub-expressions given to $or, $and and $not
SubExprs == { N(1), Obj(<<Prop("$lt", N(1))>>), Obj(<<Prop("$is", Null)>>) }

NestedExprs ==
    { Obj(<<Prop(op, Arr(<<e1, e2>>))>>) : op \in {"$or", "$and"}, e1 \in SubExprs, e2 \in SubExprs }
    \cup { Obj(<<Prop("$not", e)>>) : e \in SubExprs \ {N(1)} }
    \cup { Obj(<<Prop("$not", Obj(<<Prop("$or", Arr(<<e, N(2)>>))>>))>>) : e \in SubExprs }

\* mappings whose keys all start with $ or ., the empty mapping among them
ReservedConds ==
    { Obj(<<>>),
      Obj(<<Prop("$x", N(1))>>),
      Obj(<<Prop(".meta", N(2))>>),
      Obj(<<Prop("$x", N(1)), Prop(".meta", N(2))>>),
      Obj(<<Prop("$or", Arr(<<Obj(<<Prop("a", N(1))>>), Obj(<<Prop("b", N(2))>>)>>))>>) }

\* $or and $or inside $and (and the reverse), two and three deep
DeepExprs ==
    { Obj(<<Prop(op1, Arr(<<e, Obj(<<Prop(op2, Arr(<<N(5), Obj(<<Prop("$gt", N(6))>>)>>))>>)>>))>>) :
        op1 \in {"$or", "$and"}, op2 \in {"$or", "$and"}, e \in SubExprs }
    \cup { Obj(<<Prop("$or", Arr(<<Obj(<<Prop("$and", Arr(<<
                Obj(<<Prop("$or", Arr(<<N(5), N(6)>>))>>), N(7)>>))>>)>>))>>),
           Obj(<<Prop("$or", Arr(<<>>))>>),
           Obj(<<Prop("$and", Arr(<<N(1), N(2), N(3)>>))>>) }

\* a key with $or or $and between two other keys
OrConds ==
    { Obj(<<Prop("b", N(3)), Prop("a", e), Prop("c", Obj(<<Prop("$lt", N(4))>>))>>) :
        e \in DeepExprs \cup NestedExprs }

\* the condition mappings compiled
CompileConds ==
    ReservedConds
    \cup OrConds
    \cup { Obj(<<Prop("a", e)>>) : e \in DeepExprs }
    \cup { Obj(<<Prop("a", e)>>) : e \in SimpleExprs \cup TwoOpExprs \cup NestedExprs }
    \cup { Obj(<<Prop("a", e)>>) : e \in SeveralOps \cup NoOps }
    \cup { Obj(<<Prop("a", e), Prop("b", N(3))>>) : e \in SubExprs }
    \cup { Obj(<<Prop("a", e), Prop("$x", N(3))>>) : e \in SubExprs }

\* SQL.buildCondition(cond)
BuildConditionCall ==
    /\ CanCall
    /\ \E cond \in CompileConds :
         LET r == buildCondition(<<cond>>)
         IN  Returned("buildCondition", <<cond>>,
                      [v |-> r.v, threw |-> r.threw,
                       type |-> IF r.threw THEN "TypeError" ELSE ""])
    /\ UNCHANGED logged

\* b.where(cond)
WhereCondCall ==
    /\ CanCall
    /\ \E cond \in CompileConds :
         Call("where", <<cond>>, SQLwhere(b, <<cond>>), SQLwhereThrows(b, <<cond>>))

InitCompile ==
    /\ b \in { NewSQL, SQLnew(<<Str(<<"SELECT", " ", "*", " ", "FROM", " ", "t">>)>>) }
    /\ pre = b
    /\ hist = <<>>
    /\ limit = 1
    /\ ran = NoStatement
    /\ logged = <<>>
    /\ db = NoDatabase
    /\ NoObjects

NextCompile ==
    \/ BuildConditionCall
    \/ WhereCondCall

SpecCompile == InitCompile /\ [][NextCompile]_vars

\* a key that starts with $ or .
IsReservedKey(k) == k \in {"$ignored", "$or", "$x", ".meta"}

ReservedOnly(cond) ==
    cond.t = "object" /\ \A i \in 1..Len(cond.o) : IsReservedKey(cond.o[i].k)

\* C16: a condition mapping that is empty, or whose keys all start with $
\* or ., compiles to the literal TRUE with no parameters; where() of it
\* appends WHERE TRUE and leaves the parameters as they were.
C16_ReservedOnlyIsTrue ==
    (Len(hist) > 0 /\ ReservedOnly(last.args[1]))
    =>  /\ ~last.threw
        /\ last.op = "buildCondition" => last.ret = Str(<<"TRUE">>)
        /\ last.op = "where" =>
              /\ b.sql = Extended(Extended(pre.sql, <<"WHERE">>), <<"TRUE">>)
              /\ b.params = pre.params

\* where({$or: [...]}) on SELECT * FROM t
C16_Witness ==
    /\ Len(hist) = 1
    /\ last.op = "where"
    /\ Has(last.args[1], "$or")
    /\ b.sql = <<"SELECT", " ", "*", " ", "FROM", " ", "t", " ", "WHERE", " ", "TRUE">>

\* the keys of a mapping that name columns
ColumnsOf(cond) == { cond.o[i].k : i \in { j \in 1..Len(cond.o) : ~IsReservedKey(cond.o[j].k) } }

\* C17: in the condition compiled from a mapping, every column name stands
\* between backticks, under plain equality, every comparison operator, IN,
\* IS NULL, and inside $or, $and and $not.
C17_ColumnsQuoted ==
    (Len(hist) > 0 /\ last.op = "buildCondition" /\ ~last.threw /\ last.ret.t = "sql")
    =>  LET x == last.ret.x
        IN  /\ \A k \in ColumnsOf(last.args[1]) : \E i \in 1..Len(x) : x[i] = k
            /\ \A i \in 1..Len(x) :
                  x[i] \in ColumnsOf(last.args[1])
                  => (i > 1 /\ i < Len(x) /\ x[i - 1] = BQ /\ x[i + 1] = BQ)

\* C18: {key: {$eq: x}} compiles to `key` = ? with x bound.
C18_EqBindsItsValue ==
    (Len(hist) > 0 /\ last.op = "buildCondition"
        /\ \E v \in {N(1), S1} : last.args[1] = OpCond("a", "$eq", v))
    =>  /\ ~last.threw
        /\ last.ret.x = <<"(", BQ, "a", BQ, " ", "=", " ", "?", ")">>
        /\ last.ret.a = <<Get(Get(last.args[1], "a"), "$eq")>>

\* C19: {key: {$nin: [..]}} compiles, without failing, to `key` NOT IN
\* (?,..) with one placeholder and one parameter per element, in order.
C19_NinCompiles ==
    (Len(hist) > 0 /\ last.op = "buildCondition"
        /\ \E l \in Lists : last.args[1] = OpCond("a", "$nin", Arr(l)))
    =>  LET l == Get(Get(last.args[1], "a"), "$nin").a
        IN  /\ ~last.threw
            /\ last.ret.x = <<"(", BQ, "a", BQ, " ", "NOT", " ", "IN", " ", "(">>
                             \o Join([i \in 1..Len(l) |-> <<"?">>], <<",">>) \o <<")", ")">>
            /\ last.ret.a = l

\* the sign of a comparison operator
OpSign(op) ==
    CASE op = "$ne" -> "<>" [] op = "$lt" -> "<" [] op = "$gt" -> ">"
      [] op \in {"$lte", "$le"} -> "<=" [] op \in {"$gte", "$ge"} -> ">="
      [] op = "$eq" -> "=" [] op = "$like" -> "LIKE" [] OTHER -> "GLOB"

\* x holds the sequence part
Holds(x, part) == \E i \in 1..(Len(x) - Len(part) + 1) : SubSeq(x, i, i + Len(part) - 1) = part

\* C20: a value object with several comparison operators for one column
\* compiles to one comparison and one parameter for each operator present.
C20_EveryOperatorCompiled ==
    (Len(hist) > 0 /\ last.op = "buildCondition" /\ Get(last.args[1], "a") \in TwoOpExprs)
    =>  LET v == Get(last.args[1], "a")
        IN  /\ ~last.threw
            /\ \A i \in 1..Len(v.o) :
                  /\ Holds(last.ret.x, <<BQ, "a", BQ, " ", OpSign(v.o[i].k), " ", "?">>)
                  /\ \E j \in 1..Len(last.ret.a) : last.ret.a[j] = v.o[i].v
            /\ Count(last.ret.x, "?") = Len(v.o)
            /\ Len(last.ret.a) = Len(v.o)

\* the expression and the parameters compiled for the one key k with the
\* value e: the condition of {k: e} without its outer parentheses
Alone(k, e) ==
    LET r == buildCondition(<<Obj(<<Prop(k, e)>>)>>)
    IN  [x |-> SubSeq(r.v.x, 2, Len(r.v.x) - 1), a |-> r.v.a]

\* what the claim describes for the key k and the value e: the
\* sub-conditions of $or / $and, each against k, joined inside one pair of
\* parentheses, their parameters in that order
RECURSIVE Joined(_, _)
Joined(k, e) ==
    LET op   == IF Has(e, "$or") THEN "$or" ELSE "$and"
        word == IF op = "$or" THEN "OR" ELSE "AND"
        subs == Get(e, op).a
        each == [i \in 1..Len(subs) |-> Joined(k, subs[i])]
    IN  IF e.t = "object" /\ (Has(e, "$or") \/ Has(e, "$and"))
        THEN [x |-> <<"(">> \o Join([i \in 1..Len(each) |-> each[i].x], <<" ", word, " ">>)
                           \o <<")">>,
              a |-> Join([i \in 1..Len(each) |-> each[i].a], <<>>)]
        ELSE Alone(k, e)

\* C21: {key: {$or: [c1..cn]}} compiles to the sub-conditions, each against
\* the same key, joined by OR in one pair of parentheses ($and: by AND), to
\* any depth, their parameters in the order of their placeholders; what the
\* keys before and after it compile to is kept, in key order.
C21_OrAndJoined ==
    (Len(hist) > 0 /\ last.op = "buildCondition"
        /\ last.args[1] \in OrConds \cup { Obj(<<Prop("a", e)>>) : e \in DeepExprs })
    =>  LET o    == last.args[1].o
            each == [i \in 1..Len(o) |-> Joined(o[i].k, o[i].v)]
        IN  /\ ~last.threw
            /\ last.ret.x = <<"(">> \o Join([i \in 1..Len(o) |-> each[i].x], <<" ", "AND", " ">>)
                                    \o <<")">>
            /\ last.ret.a = Join([i \in 1..Len(o) |-> each[i].a], <<>>)

\* {b: 3, a: {$or: [{$and: [{$or: [5, 6]}, 7]}]}, c: {$lt: 4}}
C21_Witness ==
    /\ Len(hist) = 1
    /\ last.op = "buildCondition"
    /\ ~last.threw
    /\ last.ret.a = <<N(3), N(5), N(6), N(7), N(4)>>
    /\ last.ret.x = <<"(", "b", " ", "=", " ", "?", " ", "AND", " ",
                       "(", "(", "(", "a", " ", "=", " ", "?", " ", "OR", " ",
                       "a", " ", "=", " ", "?", ")", " ", "AND", " ",
                       "a", " ", "=", " ", "?", ")", ")", " ", "AND", " ",
                       BQ, "c", BQ, " ", "<", " ", "?", ")">>

\* x ends with the sequence part
EndsWith(x, part) ==
    Len(x) >= Len(part) /\ SubSeq(x, Len(x) - Len(part) + 1, Len(x)) = part

\* C22: where a key uses $in between other keys, the parameters are in the
\* left-to-right order of their placeholders: an array gives one ? and one
\* parameter per element, a sub-builder its text inside IN (...) and its
\* parameters at that position; the sub-builder is left as it was.
C22_InKeepsOrder ==
    (Len(hist) > 0 /\ last.op = "whereIn")
    =>  LET arg  == last.args[1]
            in   == IF arg.t = "array"
                    THEN [x |-> Join([i \in 1..Len(arg.a) |-> <<"?">>], <<",">>), a |-> arg.a]
                    ELSE [x |-> was["S"].sql, a |-> was["S"].params]
        IN  /\ ~last.threw
            /\ EndsWith(Content("R").sql,
                        <<"(", "b", " ", "=", " ", "?", " ", "AND", " ",
                          BQ, "a", BQ, " ", "IN", " ", "(">> \o in.x
                        \o <<")", " ", "AND", " ", BQ, "c", BQ, " ", "<", " ", "?", ")">>)
            /\ Content("R").params = was["R"].params \o <<N(3)>> \o in.a \o <<N(4)>>
            /\ Content("S") = was["S"]

\* S holds x = ? with one parameter, R had a parameter of its own
C22_Witness ==
    /\ Len(hist) > 0
    /\ last.op = "whereIn"
    /\ last.args = <<Ref("S")>>
    /\ Len(was["R"].params) > 0
    /\ Content("S") = [sql |-> <<"x", "=", "?">>, params |-> <<N(1)>>]
    /\ Len(Content("R").params) = Len(was["R"].params) + 3

-----------------------------------------------------------------------------
(* takePage and skipTake over a range of pages and page sizes              *)

MaxPage == 4
MaxRows == 3

TakePageAnyCall ==
    /\ CanCall
    /\ \E page \in 1..MaxPage, rowsPerPage \in 0..MaxRows :
           Call("takePage", <<N(page), N(rowsPerPage)>>, SQLtakePage(b, page, rowsPerPage), FALSE)

SkipTakeAnyCall ==
    /\ CanCall
    /\ \E skip \in 0..MaxRows, take \in 0..MaxRows :
           Call("skipTake", <<N(skip), N(take)>>, SQLskipTake(b, skip, take), FALSE)

InitPage ==
    /\ b \in ClauseReceivers
    /\ pre = b
    /\ hist = <<>>
    /\ limit = 2
    /\ ran = NoStatement
    /\ logged = <<>>
    /\ db = NoDatabase
    /\ NoObjects

NextPage ==
    \/ TakePageAnyCall
    \/ SkipTakeAnyCall

SpecPage == InitPage /\ [][NextPage]_vars

-----------------------------------------------------------------------------
(* fndata, param and text appends on one builder                           *)

MaxSidecarCalls == 4

\* the data handed to custom functions
SidecarData == { Obj(<<Prop("blob", N(1))>>), Obj(<<Prop("blob", N(2))>>) }

FndataCall ==
    /\ CanCall
    /\ \E data \in SidecarData : Call("fndata", <<data>>, SQLfndata(b, data), FALSE)

ParamAnyCall ==
    /\ CanCall
    /\ \E v \in {N(0), Null} : Call("param", <<v>>, SQLparam(b, v), FALSE)

AppendFnTextCall ==
    /\ CanCall
    /\ \E x \in { <<"f(?)">>, <<"x">> } : Call("append", <<Str(x)>>, SQLappend(b, <<Str(x)>>), FALSE)

\* an empty builder, or one with a pending WHERE
InitSidecar ==
    /\ b \in { NewSQL,
                SQLwhere(SQLnew(<<Str(<<"SELECT", " ", "*", " ", "FROM", " ", "t">>)>>),
                         <<Obj(<<Prop("a", N(1))>>)>>) }
    /\ pre = b
    /\ hist = <<>>
    /\ limit = MaxSidecarCalls
    /\ ran = NoStatement
    /\ logged = <<>>
    /\ db = NoDatabase
    /\ NoObjects

NextSidecar ==
    \/ FndataCall
    \/ ParamAnyCall
    \/ AppendFnTextCall

SpecSidecar == InitSidecar /\ [][NextSidecar]_vars

\* the calls of fndata so far, in order
FndataCalls == SelectSeq(hist, LAMBDA c : c.op = "fndata")

\* C24: the k-th fndata call appends the integer k-1 to parameters and
\* sidecarData[k-1] is the data it was given; fndata and param leave text
\* and the pending-WHERE flag as they were; no sidecar value is in text or
\* in parameters.
C24_SidecarIndexed ==
    LET k == Len(FndataCalls)
    IN  /\ k > 0 => /\ b.fndata.t = "array"
                     /\ Len(b.fndata.a) = k
                     /\ \A j \in 1..k : b.fndata.a[j] = FndataCalls[j].args[1]
        /\ (Len(hist) > 0 /\ last.op = "fndata") => b.params = Append(pre.params, N(k - 1))
        /\ (Len(hist) > 0 /\ last.op = "param") =>
              b.params = Append(pre.params, last.args[1]) /\ b.fndata = pre.fndata
        /\ (Len(hist) > 0 /\ last.op \in {"fndata", "param"}) =>
              b.sql = pre.sql /\ b.hasWhere = pre.hasWhere
        /\ \A i \in 1..Len(b.params) : b.params[i] \notin SidecarData
        /\ \A i \in 1..Len(b.sql) : b.sql[i] \notin {"blob", "[object Object]"}

\* a second fndata, after a param, on the builder with a pending WHERE
C24_Witness ==
    /\ Len(hist) = 3
    /\ hist[1].op = "fndata"
    /\ hist[2].op = "param"
    /\ hist[3].op = "fndata"
    /\ b.hasWhere
    /\ b.params = <<N(1), N(0), N(0), N(1)>>
    /\ b.fndata.a[1] # b.fndata.a[2]

-----------------------------------------------------------------------------
(* The Database: prepareCached, _prep and the methods that execute a       *)
(* statement.  db holds the fields of the Database (_fndata, last_sql,     *)
(* last_stmt, statement_cache), what the engine under it did (the          *)
(* statements it prepared, the iterators it has open, the sidecar list a   *)
(* custom function found at the last step of an execution) and the last   *)
(* call made.  A statement is the number the engine prepared it as.        *)

\* an SQL instance handed to the Database, as against a string
IsBuilder(arg) == "hasWhere" \in DOMAIN arg

\* sql.params != 0: the array, converted to a string and then to a number,
\* is not 0
ParamsNotZero(params) == ~LooseEq(Str(ToText(Arr(params))), Num(0))

\* the guard of prepareCached on an SQL instance
PrepareRejects(bld) ==
    /\ ParamsNotZero(bld.params)
    /\ Len(SelectSeq(bld.params, LAMBDA x : x.t # "undefined")) > 0

\* statement_cache.get(sql): 0 when there is none
CacheGet(cache, sql) ==
    IF \E i \in 1..Len(cache) : cache[i].sql = sql
    THEN cache[CHOOSE i \in 1..Len(cache) : cache[i].sql = sql].stmt
    ELSE 0

\* a text the engine may refuse to prepare (a table that is not there yet)
LateText == <<"q3">>
EngineOutcomes(sql) == IF sql = LateText THEN BOOLEAN ELSE {TRUE}

\* the statements of getMetaValue and setMetaValue on the table tears, as
\* the builder gives them: SQL.select("value").from("tears").where({key: key})
\* and SQL.insertOrReplace("tears").values({key, value})
MetaSelectText == <<"SELECT", " ", "value", " ", "FROM", " ", "tears", " ",
                    "WHERE", " ", "(", "key", " ", "=", " ", "?", ")">>
MetaInsertText == <<"INSERT", " ", "OR", " ", "REPLACE", " ", "INTO", " ", "tears", " ",
                    "(", BQ, "key", BQ, ",", BQ, "value", BQ, ")", " ", "VALUES", " ",
                    "(", "?", ",", "?", ")">>

MetaSelect(key) == [NewSQL EXCEPT !.sql = MetaSelectText, !.params = <<key>>, !.hasWhere = TRUE]

MetaInsert(key, value) == [NewSQL EXCEPT !.sql = MetaInsertText, !.params = <<key, value>>]

OnTears(sql) == sql \in {MetaSelectText, MetaInsertText}

\* an Error with a message, and the messages of the engine
ErrorOf(msg) == Obj(<<Prop("message", Str(msg))>>)
NoTable == <<"no such table: tears">>
NoSavepoint == <<"no such savepoint: tearstx">>
SyntaxError == <<"syntax error">>
PrepareError(sql) == IF OnTears(sql) THEN NoTable ELSE SyntaxError

\* a prepareCached that asks the engine every time
PrepareAlways(d, sql, ok) ==
    IF ~ok THEN [d |-> d, stmt |-> 0, threw |-> TRUE]
    ELSE LET new == d.nstmts + 1
         IN  [d |-> [d EXCEPT !.nstmts = new,
                              !.prepared = Append(@, sql),
                              !.cache = Append(@, [sql |-> sql, stmt |-> new]),
                              !.last_stmt = new,
                              !.last_sql = Str(sql)],
              stmt |-> new, threw |-> FALSE]

\* prepareCached(sql) for a string sql, the engine preparing it or not:
\* [d, stmt, threw]
PrepareText(d, sql, ok) ==
    IF LooseEq(d.last_sql, Str(sql)) THEN [d |-> d, stmt |-> d.last_stmt, threw |-> FALSE]
    ELSE LET hit == CacheGet(d.cache, sql)
         IN  IF hit # 0
             THEN [d |-> [d EXCEPT !.last_stmt = hit, !.last_sql = Str(sql)],
                   stmt |-> hit, threw |-> FALSE]
             ELSE IF ~ok
             THEN \* this.error && !err.message.match(/no such table: tears/)
                  \*            && this.error(err.message); throw err
                  [d |-> [d EXCEPT !.errors = IF PrepareError(sql) = NoTable THEN @
                                              ELSE Append(@, Str(PrepareError(sql)))],
                   stmt |-> 0, threw |-> TRUE]
             ELSE LET new == d.nstmts + 1
                  IN  [d |-> [d EXCEPT !.nstmts = new,
                                       !.prepared = Append(@, sql),
                                       !.cache = Append(@, [sql |-> sql, stmt |-> new]),
                                       !.last_stmt = new,
                                       !.last_sql = Str(sql)],
                       stmt |-> new, threw |-> FALSE]

\* prepareCached(arg)
PrepareCached(d, arg, ok) ==
    IF IsBuilder(arg)
    THEN IF PrepareRejects(arg) THEN [d |-> d, stmt |-> 0, threw |-> TRUE]
         ELSE PrepareText(d, arg.sql, ok)
    ELSE PrepareText(d, arg.x, ok)

\* _prep(arg): [d, stmt, threw]
Prep(d, arg, ok) ==
    LET sql == IF IsBuilder(arg) THEN arg.sql ELSE arg.x
        d1  == [d EXCEPT !.fndata = IF IsBuilder(arg) THEN arg.fndata ELSE Undefined]
    IN  IF LooseEq(d1.last_sql, Str(sql))
        THEN [d |-> d1, stmt |-> d1.last_stmt, threw |-> FALSE]
        ELSE PrepareText(d1, sql, ok)

\* the sidecar list of the argument of a call
SidecarOf(arg) == IF IsBuilder(arg) THEN arg.fndata ELSE Undefined

\* the statement stmt, prepared from sql, was used by a call
Used(d, sql, stmt) == [d EXCEPT !.used = @ \cup {<<sql, stmt>>}]

TextOf(arg) == IF IsBuilder(arg) THEN arg.sql ELSE arg.x

\* the table tears of the engine: there or not, with its unique index or
\* not, and its rows
NoTears == [exists |-> FALSE, indexed |-> FALSE, kv |-> <<>>]

NewDatabase ==
    [fndata |-> Undefined, last_sql |-> Undefined, last_stmt |-> 0, cache |-> <<>>,
     nstmts |-> 0, prepared |-> <<>>, used |-> {}, errors |-> <<>>,
     inTransaction |-> FALSE, rows |-> <<>>, tears |-> NoTears, tables |-> {},
     saves |-> <<>>,
     issued |-> <<>>, pending |-> <<>>, executed |-> <<>>, passed |-> <<>>,
     iters |-> <<>>, plucked |-> {}, shape |-> "none",
     seen |-> [builder |-> FALSE, expected |-> Undefined, exposed |-> Undefined],
     n |-> 0, call |-> [op |-> "none", arg |-> Undefined, threw |-> FALSE]]

MaxDbCalls == 2
MaxOpen == 1
MaxSteps == 2

\* one call on the Database, which leaves it as d
DbStep(op, arg, threw, d) ==
    /\ db' = [d EXCEPT !.n = @ + 1, !.call = [op |-> op, arg |-> arg, threw |-> threw]]
    /\ UNCHANGED <<b, pre, hist, limit, ran, aliasVars, logged>>

\* builders with and without a sidecar list, and strings
DataBuilder(sql, data) == SQLfndata(SQLnew(<<Str(sql)>>), data)

DbBuilders ==
    { DataBuilder(<<"q1">>, Obj(<<Prop("blob", N(1))>>)),
      DataBuilder(<<"q1">>, Obj(<<Prop("blob", N(2))>>)),
      SQLnew(<<Str(<<"q2">>)>>) }

DbTexts == { Str(<<"q1">>), Str(LateText) }

\* builders handed to prepareCached, by their parameter lists
PrepareParams ==
    { <<>>, <<Undefined>>, <<N(0)>>, <<Str(<<>>)>>, <<Null>>, <<N(5)>>,
      <<N(0), N(0)>>, <<Undefined, N(1)>> }

PrepareBuilders == { [NewSQL EXCEPT !.sql = <<"q2">>, !.params = ps] : ps \in PrepareParams }

\* db.prepareCached(arg)
PrepareCachedCall ==
    /\ db.n < limit
    /\ \E arg \in PrepareBuilders \cup DbTexts : \E ok \in EngineOutcomes(TextOf(arg)) :
         LET r == PrepareCached(db, arg, ok)
         IN  DbStep("prepareCached", arg, r.threw,
                    IF r.threw THEN r.d ELSE Used(r.d, TextOf(arg), r.stmt))

\* p.stmt.pluck(true) of pluck and pluckAll, p.stmt.pluck(false) of all; run
\* and get make no such call.  plucked is the set of the statements that
\* give first-column values
Pluck(op, stmt, plucked) ==
    CASE op \in {"pluck", "pluckAll"} -> plucked \cup {stmt}
      [] op = "all" -> plucked \ {stmt}
      [] OTHER -> plucked

\* what the statement gives: run its info, get one row, all the rows, each
\* row an object, or its first column once the statement is plucked
Shape(op, isPlucked) ==
    CASE op = "run" -> "info"
      [] op \in {"get", "pluck"} -> IF isPlucked THEN "value" ELSE "row"
      [] OTHER -> IF isPlucked THEN "values" ELSE "rows"

\* db.run / get / all / pluck / pluckAll (arg): _prep, then the statement is
\* executed at once; while an iterator is open the engine may refuse the
\* call on the statement, before or after its pluck setting was changed
ExecuteCall ==
    /\ db.n < limit
    /\ \E op \in {"run", "get", "all", "pluck", "pluckAll"}, arg \in DbBuilders \cup DbTexts :
       \E ok \in EngineOutcomes(TextOf(arg)) :
       \E refused \in (IF db.iters = <<>> THEN {FALSE} ELSE BOOLEAN) :
       \E set \in (IF refused THEN BOOLEAN ELSE {TRUE}) :
         LET r == Prep(db, arg, ok)
             u == Used(r.d, TextOf(arg), r.stmt)
             plucked == IF set THEN Pluck(op, r.stmt, db.plucked) ELSE db.plucked
         IN  DbStep(op, arg, r.threw \/ refused,
                    IF r.threw THEN [r.d EXCEPT !.shape = "none"]
                    ELSE IF refused THEN [u EXCEPT !.plucked = plucked, !.shape = "none"]
                    ELSE [u EXCEPT
                            !.plucked = plucked,
                            !.shape = Shape(op, r.stmt \in plucked),
                            !.seen = [builder |-> IsBuilder(arg), expected |-> SidecarOf(arg),
                                       exposed |-> r.d.fndata]])

\* db.iterate(arg) and db.each(arg, callback): _prep, then an iterator that
\* is stepped later; the callback of each runs between two steps
IterateCall ==
    /\ db.n < limit
    /\ Len(db.iters) < MaxOpen
    /\ \E op \in {"iterate", "each"}, arg \in DbBuilders \cup DbTexts, rows \in 1..MaxSteps :
       \E ok \in EngineOutcomes(TextOf(arg)) :
         LET r == Prep(db, arg, ok)
         IN  DbStep(op, arg, r.threw,
                    IF r.threw THEN r.d
                    ELSE [Used(r.d, TextOf(arg), r.stmt) EXCEPT
                            !.iters = Append(@, [builder |-> IsBuilder(arg),
                                                 sidecar |-> SidecarOf(arg), left |-> rows])])

\* one step of an open iterator: the statement runs on, and a custom
\* function called by it finds this._fndata of the Database
IterateStep ==
    /\ \E i \in 1..Len(db.iters) :
         LET it == db.iters[i]
             d1 == [db EXCEPT !.seen = [builder |-> it.builder, expected |-> it.sidecar,
                                        exposed |-> db.fndata]]
         IN  db' = IF it.left = 1
                   THEN [d1 EXCEPT !.iters = SubSeq(@, 1, i - 1) \o SubSeq(@, i + 1, Len(@))]
                   ELSE [d1 EXCEPT !.iters[i].left = @ - 1]
    /\ UNCHANGED <<b, pre, hist, limit, ran, aliasVars, logged>>

\* a Database that has run the text q1 before
UsedDatabase ==
    LET r == Prep(NewDatabase, Str(<<"q1">>), TRUE)
    IN  Used(r.d, <<"q1">>, r.stmt)

InitDb ==
    /\ b = NewSQL
    /\ pre = NewSQL
    /\ hist = <<>>
    /\ limit = MaxDbCalls
    /\ ran = NoStatement
    /\ logged = <<>>
    /\ db \in {NewDatabase, UsedDatabase}
    /\ NoObjects

NextDb ==
    \/ PrepareCachedCall
    \/ ExecuteCall
    \/ IterateCall
    \/ IterateStep

SpecDb == InitDb /\ [][NextDb]_vars

\* the calls that execute a statement
Executing == {"run", "get", "all", "pluck", "pluckAll", "iterate", "each"}

\* C25: at every step of the execution of a statement called with a builder
\* (the one step of run/get/all/pluck/pluckAll, every step of an iterator,
\* whatever was called between two steps) the sidecar list found on the
\* Database is the sidecar list of that builder, and after a call with a
\* string no sidecar list is found on it.
C25_SidecarOfTheStatement ==
    /\ (db # NoDatabase /\ db.seen.builder) => db.seen.exposed = db.seen.expected
    /\ (db # NoDatabase /\ db.call.op \in Executing /\ ~IsBuilder(db.call.arg))
          => db.fndata = Undefined

\* C29: the engine prepares a text at most once, every call with one text
\* uses one statement, an entry of the cache stays as it is, and last_stmt
\* is the statement the cache holds for last_sql.
CacheKept ==
    \A i \in 1..Len(db.cache) : Len(db'.cache) >= i /\ db'.cache[i] = db.cache[i]

PreparedOnce ==
    /\ \A i, j \in 1..Len(db.prepared) : db.prepared[i] = db.prepared[j] => i = j
    /\ \A u, v \in db.used : u[1] = v[1] => u[2] = v[2]
    /\ db.last_sql # Undefined => /\ db.last_stmt # 0
                                  /\ CacheGet(db.cache, db.last_sql.x) = db.last_stmt

C29_PreparedOnce == [](db # NoDatabase => PreparedOnce) /\ [][db # NoDatabase => CacheKept]_vars

\* a call goes back to the first of two cached texts
C29_Witness ==
    /\ db # NoDatabase
    /\ db.n = 2
    /\ Len(db.prepared) = 2
    /\ db.call.op \in Executing
    /\ ~db.call.threw
    /\ db.last_sql = Str(db.prepared[1])
    /\ \E u \in db.used : u[1] = db.prepared[2]

\* a parameter list with a value that is not undefined
HasAssigned(params) == \E i \in 1..Len(params) : params[i].t # "undefined"

\* C30: prepareCached(builder) throws for every builder with a value other
\* than undefined in its parameter list and then prepares and caches
\* nothing; it accepts a builder with an empty parameter list.
C30_PrepareCachedGuard ==
    [][(db # NoDatabase /\ db'.n # db.n /\ db'.call.op = "prepareCached" /\ IsBuilder(db'.call.arg))
         => /\ HasAssigned(db'.call.arg.params)
                => /\ db'.call.threw
                   /\ db'.cache = db.cache
                   /\ db'.prepared = db.prepared
            /\ db'.call.arg.params = <<>> => ~db'.call.threw]_vars

-----------------------------------------------------------------------------
(* Transactions.  The engine keeps the rows written (rows), the table      *)
(* tears and a stack of savepoints, each the rows and the table as they    *)
(* were when it was opened; issued is the list of the statements the       *)
(* engine was given to execute during the last call, each with whether it *)
(* succeeded.                                                              *)

SavepointText == <<"SAVEPOINT tearstx">>
ReleaseText   == <<"RELEASE SAVEPOINT tearstx">>
RollbackText  == <<"ROLLBACK TO SAVEPOINT tearstx">>
CommitText    == <<"COMMIT">>
WriteText     == <<"INSERT INTO t VALUES (?)">>
CreateTableText == <<"CREATE TABLE tears">>
CreateIndexText == <<"CREATE UNIQUE INDEX tears">>
UserTableText == <<"CREATE TABLE ", BQ, "t2", BQ>>
TableExists == <<"table ", BQ, "t2", BQ, " already exists">>

Issue(d, sql, ok) == [d EXCEPT !.issued = Append(@, [sql |-> sql, ok |-> ok])]

Failed(d, sql, msg) == [d |-> Issue(d, sql, FALSE), threw |-> TRUE, v |-> ErrorOf(msg)]
Done(d, sql, v) == [d |-> Issue(d, sql, TRUE), threw |-> FALSE, v |-> v]

\* the value stored under key in the table tears, undefined when none
Stored(tears, key) ==
    IF \E i \in 1..Len(tears.kv) : tears.kv[i].key = key
    THEN tears.kv[CHOOSE i \in 1..Len(tears.kv) : tears.kv[i].key = key].value
    ELSE Undefined

\* INSERT OR REPLACE: with the unique index the row of the key is replaced
Replaced(tears, key, value) ==
    LET others == IF tears.indexed THEN SelectSeq(tears.kv, LAMBDA r : r.key # key)
                  ELSE tears.kv
    IN  [tears EXCEPT !.kv = Append(others, [key |-> key, value |-> value])]

\* the engine executes a prepared statement: [d, threw, v]
Exec(d, sql, params) ==
    CASE sql = SavepointText ->
           Done([d EXCEPT !.saves = Append(@, [rows |-> d.rows, tears |-> d.tears,
                                               tables |-> d.tables])], sql, Undefined)
      [] sql = ReleaseText ->
           IF d.saves = <<>> THEN Failed(d, sql, NoSavepoint)
           ELSE Done([d EXCEPT !.saves = SubSeq(@, 1, Len(@) - 1)], sql, Undefined)
      [] sql = RollbackText ->
           IF d.saves = <<>> THEN Failed(d, sql, NoSavepoint)
           ELSE Done([d EXCEPT !.rows = d.saves[Len(d.saves)].rows,
                               !.tears = d.saves[Len(d.saves)].tears,
                               !.tables = d.saves[Len(d.saves)].tables], sql, Undefined)
      [] sql = CommitText -> Done([d EXCEPT !.saves = <<>>], sql, Undefined)
      [] sql = WriteText -> Done([d EXCEPT !.rows = Append(@, params[1])], sql, Undefined)
      [] sql = CreateTableText ->
           Done([d EXCEPT !.tears = [exists |-> TRUE, indexed |-> FALSE, kv |-> <<>>]], sql, Undefined)
      [] sql = CreateIndexText -> Done([d EXCEPT !.tears.indexed = TRUE], sql, Undefined)
      [] sql = UserTableText ->
           IF "t2" \in d.tables THEN Failed(d, sql, TableExists)
           ELSE Done([d EXCEPT !.tables = @ \cup {"t2"}], sql, Undefined)
      [] sql = MetaSelectText ->
           IF ~d.tears.exists THEN Failed(d, sql, NoTable)
           ELSE Done(d, sql, Stored(d.tears, params[1]))
      [] sql = MetaInsertText ->
           IF ~d.tears.exists THEN Failed(d, sql, NoTable)
           ELSE Done([d EXCEPT !.tears = Replaced(@, params[1], params[2])], sql, Undefined)
      [] OTHER -> Done(d, sql, Undefined)

\* F of the value v, v computed once
With(v, F(_)) == CHOOSE r \in { F(x) : x \in {v} } : TRUE

\* db.run(arg, ...extra) and db.pluck(arg): _prep, then the statement is
\* executed with the parameters of the builder or of the call
Run(d, arg, extra) ==
    LET sql    == TextOf(arg)
        params == IF IsBuilder(arg) THEN arg.params ELSE extra
    IN  With(Prep(d, arg, OnTears(sql) => d.tears.exists), LAMBDA p :
            IF p.threw THEN [d |-> p.d, threw |-> TRUE, v |-> ErrorOf(PrepareError(sql))]
            ELSE Exec(Used(p.d, sql, p.stmt), sql, params))

\* isPromise(promise): !!promise && typeof promise.then === 'function'
isPromise(v) == Truthy(v) /\ Get(v, "then").t = "function"

\* a promise that is settled later with a value or an error
PromiseOf(how, v) == Obj(<<Prop("then", Fn), Prop(how, v)>>)

PromiseError ==
    ErrorOf(<<"The callback to transactionSync returned a promise.  Use transactionAsyncUnsafe insteaed">>)

\* err.message
MessageOf(err) == Get(err, "message")

\* the callbacks handed to a transaction: what the function does, in order
\* (it writes rows, runs another transaction, whose error it may catch, calls
\* rollback(), commits) and how it ends
NoCallback == [kind |-> "none"]

UserCallback(writes, inner, commit, how, v) ==
    [kind |-> "user", writes |-> writes, inner |-> inner, commit |-> commit,
     how |-> how, v |-> v, catches |-> FALSE, rollback |-> FALSE]

\* () => { writes; try { db.transactionSync(inner) } catch (e) {}; ... }
CatchingCallback(writes, inner, how, v) ==
    [UserCallback(writes, inner, FALSE, how, v) EXCEPT !.catches = TRUE]

\* () => { writes; db.rollback(); ... }
RollbackCallback(writes, how, v) ==
    [UserCallback(writes, NoCallback, FALSE, how, v) EXCEPT !.rollback = TRUE]

RECURSIVE RunWrites(_, _)
RunWrites(d, writes) ==
    IF writes = <<>> THEN d
    ELSE RunWrites(Run(d, Str(WriteText), <<Head(writes)>>).d, Tail(writes))


\* rollback()
NotInTransaction == ErrorOf(<<"Not currently in a transaction, can't rollback">>)

Rollback(d) ==
    IF ~d.inTransaction THEN [d |-> d, threw |-> TRUE, v |-> NotInTransaction]
    ELSE With(Run(d, Str(RollbackText), <<>>), LAMBDA back :
             IF back.threw THEN back ELSE Run(back.d, Str(SavepointText), <<>>))

\* the catch block of transactionSync and transactionAsyncUnsafe
Caught(d, err) ==
    With(Run(d, Str(RollbackText), <<>>), LAMBDA back :
        IF back.threw THEN back
        ELSE [d |-> [back.d EXCEPT !.errors = Append(@, MessageOf(err))],
              threw |-> TRUE, v |-> err])

\* the try block once the callback has given retv
Released(d, retv) ==
    With(Run(d, Str(ReleaseText), <<>>), LAMBDA rel :
        IF rel.threw THEN Caught(rel.d, rel.v)
        ELSE [d |-> rel.d, threw |-> FALSE, v |-> retv])

\* transactionSync(callback), Called(d, callback) being what callback() does
TransactionSyncOf(d, callback, Called(_, _)) ==
    LET wasInTransaction == d.inTransaction
    IN  With(Run([d EXCEPT !.inTransaction = TRUE], Str(SavepointText), <<>>), LAMBDA open :
            IF open.threw THEN open
            ELSE With(Called(open.d, callback), LAMBDA c :
                 With(IF c.threw THEN Caught(c.d, c.v)
                      ELSE IF isPromise(c.v) THEN Caught(c.d, PromiseError)
                      ELSE Released(c.d, c.v), LAMBDA r :
                 [r EXCEPT !.d.inTransaction = wasInTransaction])))

\* e.message.indexOf("no such table") < 0
NotNoTable(e) == MessageOf(e) # Str(NoTable)

\* getMetaValue(key, defaultValue): [d, threw, v]
getMetaValue(d, key, defaultValue) ==
    With(Run(d, MetaSelect(key), <<>>), LAMBDA r :
        IF r.threw
        THEN IF NotNoTable(r.v) THEN r ELSE [r EXCEPT !.threw = FALSE, !.v = defaultValue]
        ELSE IF r.v.t = "undefined" THEN [r EXCEPT !.v = defaultValue]
        ELSE r)

\* the callback setMetaValue hands to transactionSync: saveValue(), and on
\* "no such table" the table and its index are created and saveValue() is
\* called again
CreateTears == [NewSQL EXCEPT !.sql = CreateTableText]
CreateTearsIndex == [NewSQL EXCEPT !.sql = CreateIndexText]

SaveValue(d, key, value) ==
    With(Run(d, MetaInsert(key, value), <<>>), LAMBDA r :
        IF r.threw THEN r ELSE [r EXCEPT !.v = Undefined])

SaveMeta(d, key, value) ==
    With(SaveValue(d, key, value), LAMBDA r :
        IF ~r.threw \/ NotNoTable(r.v) THEN r
        ELSE With(Run(r.d, CreateTears, <<>>), LAMBDA t :
             IF t.threw THEN t
             ELSE With(Run(t.d, CreateTearsIndex, <<>>), LAMBDA x :
                  IF x.threw THEN x ELSE SaveValue(x.d, key, value))))

\* the callback createTable hands to transactionSync, options naming the
\* table t2 and no indicies
CreateUserTable == [NewSQL EXCEPT !.sql = UserTableText]
CreateTableCallback == [kind |-> "createTable"]

SetMetaCallback(key, value) ==
    [kind |-> "setMeta", key |-> key,
     value |-> IF value.t = "boolean" THEN Num(IF value.n = 1 THEN 1 ELSE 0) ELSE value]

\* a callback that starts no transaction but the one of setMetaValue: the
\* callbacks of the model nest two deep
RunInnerCallback(d, callback) ==
    IF callback.kind = "setMeta" THEN SaveMeta(d, callback.key, callback.value)
    ELSE IF callback.kind = "createTable" THEN Run(d, CreateUserTable, <<>>)
    ELSE With(RunWrites(d, callback.writes), LAMBDA d1 :
              [d |-> IF callback.commit THEN Run(d1, Str(CommitText), <<>>).d ELSE d1,
               threw |-> callback.how = "throw", v |-> callback.v])

TransactionSyncInner(d, callback) == TransactionSyncOf(d, callback, RunInnerCallback)

\* a step function of migrate: it is executed (executed is the list of the
\* steps executed, by index), writes a row, may call db.setMetaValue or
\* db.createTable, and may throw
StepError == ErrorOf(<<"step">>)

StepUses(d, step) ==
    CASE step.uses = "setMetaValue" ->
           TransactionSyncInner(d, SetMetaCallback(Str(<<"schemaVersion">>), Num(step.id)))
      [] step.uses = "createTable" -> TransactionSyncInner(d, CreateTableCallback)
      [] OTHER -> [d |-> d, threw |-> FALSE, v |-> Undefined]

RECURSIVE RunSteps(_, _, _)
RunSteps(d, steps, i) ==
    IF i > Len(steps) THEN [d |-> d, threw |-> FALSE, v |-> Undefined]
    ELSE With(Run([d EXCEPT !.executed = Append(@, steps[i].id)],
                  Str(WriteText), <<Num(steps[i].id)>>), LAMBDA w :
         With(StepUses(w.d, steps[i]), LAMBDA u :
              IF u.threw THEN u
              ELSE IF steps[i].throws THEN [d |-> u.d, threw |-> TRUE, v |-> StepError]
              ELSE RunSteps(u.d, steps, i + 1)))

\* a migrate that runs every step of the array
MigrateAll(d, steps) ==
    With(RunSteps(d, steps, 1), LAMBDA done :
        IF done.threw THEN done
        ELSE TransactionSyncInner(done.d, SetMetaCallback(Str(<<"migrationStep">>),
                                                          Num(Len(steps)))))

\* the callback migrate hands to transactionSync
Migrate(d, steps) ==
    With(getMetaValue(d, Str(<<"migrationStep">>), Num(0)), LAMBDA cur :
        \* cur.v.n is parseInt of the number stored
        IF cur.threw THEN cur
        ELSE IF cur.v.n < Len(steps)
        THEN With(RunSteps(cur.d, steps, cur.v.n + 1), LAMBDA done :
                 IF done.threw THEN done
                 ELSE TransactionSyncInner(done.d, SetMetaCallback(Str(<<"migrationStep">>),
                                                                   Num(Len(steps)))))
        ELSE [cur EXCEPT !.v = Undefined])

\* callback(): [d, threw, v], v the value returned or thrown
RunCallback(d, callback) ==
    CASE callback.kind = "setMeta" -> SaveMeta(d, callback.key, callback.value)
      [] callback.kind = "migrate" -> Migrate(d, callback.steps)
      [] OTHER ->
        With(RunWrites(d, callback.writes), LAMBDA d1 :
        With(IF callback.inner.kind = "none"
             THEN [d |-> d1, threw |-> FALSE, v |-> Undefined]
             ELSE TransactionSyncInner(d1, callback.inner), LAMBDA in :
             IF in.threw /\ ~callback.catches THEN in
             ELSE With(IF callback.rollback THEN Rollback(in.d)
                       ELSE [d |-> in.d, threw |-> FALSE, v |-> Undefined], LAMBDA rb :
                  IF rb.threw THEN rb
                  ELSE [d |-> IF callback.commit THEN Run(rb.d, Str(CommitText), <<>>).d
                              ELSE rb.d,
                        threw |-> callback.how = "throw", v |-> callback.v])))

TransactionSync(d, callback) == TransactionSyncOf(d, callback, RunCallback)

\* the promise of an async function: settled with what its body gave, or
\* pending on the promise the body awaits
Settled(r) ==
    With(r, LAMBDA x :
        [d |-> x.d, state |-> IF x.threw THEN "rejected" ELSE "resolved", v |-> x.v])
Awaiting(d, promise) == [d |-> d, state |-> "pending", v |-> promise]

\* a transactionAsyncUnsafe that does not await what the callback returns
TransactionAsyncNoAwait(d, callback) ==
    With(Run(d, Str(SavepointText), <<>>), LAMBDA open :
    With(RunCallback(open.d, callback), LAMBDA c :
        IF c.threw THEN Settled(Caught(c.d, c.v)) ELSE Settled(Released(c.d, c.v))))

\* transactionAsyncUnsafe(callback) up to its await, or to its end when the
\* callback returns no promise
TransactionAsyncUnsafe(d, callback) ==
    With(Run(d, Str(SavepointText), <<>>), LAMBDA open :
        IF open.threw THEN Settled(open)
        ELSE With(RunCallback(open.d, callback), LAMBDA c :
                 IF c.threw THEN Settled(Caught(c.d, c.v))
                 ELSE IF isPromise(c.v) THEN Awaiting(c.d, c.v)
                 ELSE Settled(Released(c.d, c.v))))

\* the promise awaited is settled: the rest of transactionAsyncUnsafe
Rejects(promise) == \E i \in 1..Len(promise.o) : promise.o[i].k = "reject"
Resumed(d, promise) ==
    IF Rejects(promise) THEN Settled(Caught(d, Get(promise, "reject")))
    ELSE Settled(Released(d, Get(promise, "resolve")))

\* one call on the Database that gives r = [d, threw, v]
DbResult(op, arg, result) ==
    /\ db' = With(result, LAMBDA r :
                [r.d EXCEPT !.n = @ + 1,
                            !.call = [op |-> op, arg |-> arg, threw |-> r.threw, v |-> r.v,
                                      rows |-> db.rows, errors |-> db.errors,
                                      saves |-> Len(db.saves), tears |-> db.tears,
                                      tables |-> db.tables]])
    /\ UNCHANGED <<b, pre, hist, limit, ran, aliasVars, logged>>

MaxTxCalls == 2

Endings ==
    { <<"return", N(7)>>, <<"return", Undefined>>,
      <<"return", PromiseOf("resolve", N(7))>>,
      <<"return", PromiseOf("reject", ErrorOf(<<"late">>))>>,
      <<"throw", ErrorOf(<<"boom">>)>>, <<"throw", S1>> }

InnerCallbacks ==
    { UserCallback(<<N(2)>>, NoCallback, FALSE, e[1], e[2]) :
        e \in { <<"return", N(7)>>, <<"return", PromiseOf("resolve", N(7))>>,
                <<"throw", ErrorOf(<<"inner">>)>> } }

PlainEndings == { <<"return", N(7)>>, <<"throw", ErrorOf(<<"boom">>)>> }

SyncCallbacks ==
    { UserCallback(ws, in, c, e[1], e[2]) :
        ws \in {<<>>, <<N(1)>>}, in \in {NoCallback} \cup InnerCallbacks,
        c \in BOOLEAN, e \in Endings }
    \cup { CatchingCallback(<<N(1)>>, in, e[1], e[2]) : in \in InnerCallbacks, e \in PlainEndings }
    \cup { RollbackCallback(<<N(1)>>, e[1], e[2]) : e \in PlainEndings }

\* db.transactionSync(callback)
TransactionSyncCall ==
    /\ db.n < limit
    /\ \E callback \in SyncCallbacks :
         DbResult("transactionSync", callback,
                  TransactionSync([db EXCEPT !.issued = <<>>], callback))

\* db.run("INSERT INTO t VALUES (?)", w) outside any callback
WriteCall ==
    /\ db.n < limit
    /\ \E w \in {N(3)} :
         DbResult("run", Str(WriteText), Run([db EXCEPT !.issued = <<>>], Str(WriteText), <<w>>))

AsyncCallbacks ==
    { UserCallback(ws, NoCallback, FALSE, e[1], e[2]) : ws \in {<<>>, <<N(1)>>}, e \in Endings }

\* db.transactionAsyncUnsafe(callback): pending holds the promise returned,
\* with the statements this transaction had the engine execute and whether
\* the promise of the callback has been settled
TransactionAsyncCall ==
    /\ db.n < limit
    /\ \E callback \in AsyncCallbacks :
         DbResult("transactionAsyncUnsafe", callback,
                  With(TransactionAsyncUnsafe([db EXCEPT !.issued = <<>>], callback), LAMBDA r :
                      [d |-> [r.d EXCEPT !.pending =
                                Append(@, [callback |-> callback, state |-> r.state, v |-> r.v,
                                           issued |-> r.d.issued, settled |-> "no"])],
                       threw |-> FALSE, v |-> Undefined]))

\* the promise a callback returned is settled and the transaction waiting
\* for it runs on
SettleStep ==
    /\ \E i \in 1..Len(db.pending) :
         /\ db.pending[i].state = "pending"
         /\ db' = With(Resumed([db EXCEPT !.issued = <<>>], db.pending[i].v), LAMBDA r :
                    [r.d EXCEPT !.call.op = "settle", !.pending[i] =
                       [@ EXCEPT !.state = r.state, !.v = r.v,
                                 !.issued = @ \o r.d.issued,
                                 !.settled = IF Rejects(db.pending[i].v) THEN "reject"
                                             ELSE "resolve"]])
    /\ UNCHANGED <<b, pre, hist, limit, ran, aliasVars, logged>>

InitTx ==
    /\ b = NewSQL
    /\ pre = NewSQL
    /\ hist = <<>>
    /\ limit = MaxTxCalls
    /\ ran = NoStatement
    /\ logged = <<>>
    /\ db = NewDatabase
    /\ NoObjects

NextTx ==
    \/ TransactionSyncCall
    \/ TransactionAsyncCall
    \/ SettleStep
    \/ WriteCall

SpecTx == InitTx /\ [][NextTx]_vars

\* what a callback of the model gives to the transaction around it: the
\* error it throws (its own, or the one of the transaction inside it), or
\* the value it returns
Fails(callback) == callback.how = "throw" \/ isPromise(callback.v)
ErrorIn(callback) == IF callback.how = "throw" THEN callback.v ELSE PromiseError
InnerFails(callback) == callback.inner.kind # "none" /\ Fails(callback.inner)
InnerThrows(callback) == InnerFails(callback) /\ ~callback.catches
Throws(callback) == InnerThrows(callback) \/ callback.how = "throw"
Thrown(callback) == IF InnerThrows(callback) THEN ErrorIn(callback.inner) ELSE callback.v

SavepointStatements == {SavepointText, ReleaseText, RollbackText}
SavepointsSucceed ==
    \A i \in 1..Len(db.issued) : db.issued[i].sql \in SavepointStatements => db.issued[i].ok
WasIssued(sql) == \E i \in 1..Len(db.issued) : db.issued[i].sql = sql

\* C26: transactionSync opens a savepoint first; a callback that returns a
\* value that is no promise has the savepoint released and its value
\* returned; a callback that throws or returns a promise has every row it
\* wrote rolled back, the hook given the message of the error and the
\* error thrown; release and rollback are not both issued by one call.
C26_SyncReleasesOrRollsBack ==
    (db # NoDatabase /\ db.call.op = "transactionSync" /\ SavepointsSucceed) =>
        LET callback == db.call.arg
            error    == IF Throws(callback) THEN Thrown(callback) ELSE PromiseError
        IN  /\ db.issued[1].sql = SavepointText
            /\ (~Throws(callback) /\ ~isPromise(callback.v)) =>
                  /\ ~db.call.threw
                  /\ db.call.v = callback.v
                  /\ db.issued[Len(db.issued)].sql = ReleaseText
            /\ (Throws(callback) \/ isPromise(callback.v)) =>
                  /\ db.call.threw
                  /\ db.call.v = error
                  /\ db.rows = db.call.rows
                  /\ db.errors # <<>>
                  /\ db.errors[Len(db.errors)] = MessageOf(error)
            /\ callback.inner.kind = "none" => ~(WasIssued(ReleaseText) /\ WasIssued(RollbackText))

\* C27: transactionAsyncUnsafe has the release executed only once the
\* promise of the callback is resolved, and its own promise is then resolved
\* with the value of the callback; when the callback throws or its promise
\* is rejected, the rollback is executed, the hook is called and the
\* promise returned is rejected with that error.
Issued(p, sql) == \E i \in 1..Len(p.issued) : p.issued[i].sql = sql
AllSucceeded(p) ==
    \A i \in 1..Len(p.issued) : p.issued[i].sql \in SavepointStatements => p.issued[i].ok
Hooked(err) == \E i \in 1..Len(db.errors) : db.errors[i] = MessageOf(err)

AsyncReleasesOrRollsBack(p) ==
    LET callback == p.callback
        promised == callback.how = "return" /\ isPromise(callback.v)
        failed   == callback.how = "throw" \/ (promised /\ p.settled = "reject")
        passed   == callback.how = "return" /\ (promised => p.settled = "resolve")
        error    == IF promised THEN Get(callback.v, "reject") ELSE callback.v
        value    == IF promised THEN Get(callback.v, "resolve") ELSE callback.v
    IN  /\ (promised /\ p.settled = "no") => (p.state = "pending" /\ ~Issued(p, ReleaseText))
        /\ (passed /\ AllSucceeded(p)) =>
              /\ p.state = "resolved"
              /\ p.v = value
              /\ p.issued[Len(p.issued)].sql = ReleaseText
        /\ (failed /\ AllSucceeded(p)) =>
              /\ Issued(p, RollbackText)
              /\ ~Issued(p, ReleaseText)
              /\ Hooked(error)
              /\ p.state = "rejected"
              /\ p.v = error

C27_AsyncReleasesAfterResolve ==
    db # NoDatabase => \A i \in 1..Len(db.pending) : AsyncReleasesOrRollsBack(db.pending[i])

\* a transaction whose callback returned a promise was resolved after a
\* write made while it waited, and another one was rejected
C27_Witness ==
    /\ db # NoDatabase
    /\ \E i \in 1..Len(db.pending) :
         /\ db.pending[i].settled = "resolve"
         /\ db.pending[i].state = "resolved"
         /\ db.pending[i].callback.writes # <<>>
    /\ \E i \in 1..Len(db.pending) :
         /\ db.pending[i].settled = "reject"
         /\ db.pending[i].state = "rejected"

-----------------------------------------------------------------------------
(* migrate, getMetaValue and setMetaValue                                  *)

MaxMigrations == 3
MaxStepCount == 3

\* the step arrays: the first n steps, the step bad of them throwing
\* and each of them using uses
StepArray(n, bad, uses) == [i \in 1..n |-> [id |-> i, throws |-> i = bad, uses |-> uses]]
StepUse == {"setMetaValue", "createTable"}

\* db.migrate(steps); passed is the list of the calls of migrate made
MigrateCall ==
    /\ db.n < limit
    /\ \E n \in 0..MaxStepCount : \E bad \in 0..n :
         DbResult("migrate", [n |-> n, bad |-> bad, uses |-> "run"],
                  With(TransactionSync([db EXCEPT !.issued = <<>>],
                                       [kind |-> "migrate", steps |-> StepArray(n, bad, "run")]),
                       LAMBDA r : [r EXCEPT !.d.passed = Append(@, [n |-> n, threw |-> r.threw])]))

\* db.setMetaValue(key, value) with another key
SetMetaValueCall ==
    /\ db.n < limit
    /\ \E value \in {Num(1), Bool(TRUE)} :
         DbResult("setMetaValue", value,
                  TransactionSync([db EXCEPT !.issued = <<>>],
                                  SetMetaCallback(Str(<<"schemaVersion">>), value)))

\* db.getMetaValue("migrationStep", 0)
GetMetaValueCall ==
    /\ db.n < limit
    /\ DbResult("getMetaValue", Str(<<"migrationStep">>),
                getMetaValue([db EXCEPT !.issued = <<>>], Str(<<"migrationStep">>), Num(0)))

InitMigrate ==
    /\ b = NewSQL
    /\ pre = NewSQL
    /\ hist = <<>>
    /\ limit = MaxMigrations
    /\ ran = NoStatement
    /\ logged = <<>>
    /\ db = NewDatabase
    /\ NoObjects

NextMigrate ==
    \/ MigrateCall
    \/ SetMetaValueCall
    \/ GetMetaValueCall
    \/ WriteCall

SpecMigrate == InitMigrate /\ [][NextMigrate]_vars

\* every call of migrate so far succeeded and was given an array that
\* extends the one before
Extending ==
    /\ \A i \in 1..Len(db.passed) : ~db.passed[i].threw
    /\ \A i \in 1..(Len(db.passed) - 1) : db.passed[i].n <= db.passed[i + 1].n

StoredStep == LET v == Stored(db.tears, Str(<<"migrationStep">>))
              IN  IF v.t = "undefined" THEN 0 ELSE v.n

\* C28: over successful calls of migrate with arrays that extend each
\* other, every step is executed once and in the order of the array, the
\* migrationStep stored is the length of the last array, and a call with no
\* new step executes no step and writes nothing.
C28_MigrateRunsEachStepOnce ==
    /\ [](db # NoDatabase /\ db.passed # <<>> /\ Extending =>
            /\ db.executed = [i \in 1..db.passed[Len(db.passed)].n |-> i]
            /\ StoredStep = db.passed[Len(db.passed)].n)
    /\ [][(db # NoDatabase /\ db.passed # <<>> /\ Len(db'.passed) = Len(db.passed) + 1
            /\ Extending' /\ db'.passed[Len(db'.passed)].n = db.passed[Len(db.passed)].n)
           => /\ db'.executed = db.executed
              /\ db'.rows = db.rows
              /\ db'.tears = db.tears]_vars

\* a third migrate adds no step after two that did
C28_Witness ==
    /\ db # NoDatabase
    /\ Len(db.passed) = 3
    /\ Extending
    /\ db.passed[1].n = 1
    /\ db.passed[2].n = 3
    /\ db.passed[3].n = 3
    /\ db.executed = <<1, 2, 3>>

\* C31: whatever was called before, also with the same text, get gives a
\* row object (or undefined), all gives row objects, pluck and pluckAll give
\* first-column values.
C31_ResultShapes ==
    (db # NoDatabase /\ ~db.call.threw) =>
        /\ db.call.op = "get" => db.shape = "row"
        /\ db.call.op = "all" => db.shape = "rows"
        /\ db.call.op = "pluck" => db.shape = "value"
        /\ db.call.op = "pluckAll" => db.shape = "values"

\* C32: the number of savepoints open after transactionSync has returned or
\* thrown is the number open before it, whether the callback returned,
\* threw, returned a promise or called rollback().
C32_SavepointsBalanced ==
    (db # NoDatabase /\ db.call.op = "transactionSync" /\ ~db.call.arg.commit) =>
        Len(db.saves) = db.call.saves

\* C33: when a transactionSync inside the callback throws and the error
\* leaves the outer callback, every row the outer callback wrote is rolled
\* back; when the outer callback catches the error and returns, the rows it
\* wrote itself are kept and the rows of the inner callback are rolled back.
C33_NestedRollback ==
    (db # NoDatabase /\ db.call.op = "transactionSync" /\ SavepointsSucceed
        /\ InnerFails(db.call.arg)) =>
        LET callback == db.call.arg
        IN  /\ ~callback.catches => (db.call.threw /\ db.rows = db.call.rows)
            /\ (callback.catches /\ callback.how = "return") =>
                  (~db.call.threw /\ db.rows = db.call.rows \o callback.writes)

MaxStepCalls == 2
MaxUsingSteps == 2

\* db.migrate(steps), every step calling db.setMetaValue or db.createTable
MigrateUsingCall ==
    /\ db.n < limit
    /\ \E n \in 1..MaxUsingSteps : \E bad \in 0..n : \E uses \in StepUse :
         DbResult("migrate", [n |-> n, bad |-> bad, uses |-> uses],
                  With(TransactionSync([db EXCEPT !.issued = <<>>],
                                       [kind |-> "migrate", steps |-> StepArray(n, bad, uses)]),
                       LAMBDA r : [r EXCEPT !.d.passed = Append(@, [n |-> n, threw |-> r.threw])]))

InitSteps ==
    /\ b = NewSQL
    /\ pre = NewSQL
    /\ hist = <<>>
    /\ limit = MaxStepCalls
    /\ ran = NoStatement
    /\ logged = <<>>
    /\ db = NewDatabase
    /\ NoObjects

NextSteps ==
    \/ MigrateUsingCall
    \/ MigrateCall
    \/ WriteCall

SpecSteps == InitSteps /\ [][NextSteps]_vars

-----------------------------------------------------------------------------
(* SpecFlag: the methods that go through append, where and andWhere, on a  *)
(* builder with and without a pending WHERE                                *)

MaxFlagCalls == 2

\* an empty builder, and new SQL("SELECT * FROM t").where({a: 1})
FlagReceivers ==
    { NewSQL,
      SQLwhere(SQLnew(<<Str(<<"SELECT", " ", "*", " ", "FROM", " ", "t">>)>>),
               <<Obj(<<Prop("a", N(1))>>)>>) }

\* append(), append(undefined), append(null), append("x")
AppendAnyCall ==
    /\ CanCall
    /\ \E args \in { <<>>, <<Undefined>>, <<Null>>, <<S1>> } :
           Call("append", args, SQLappend(b, args), FALSE)

InitFlag ==
    /\ b \in FlagReceivers
    /\ pre = b
    /\ hist = <<>>
    /\ limit = MaxFlagCalls
    /\ ran = NoStatement
    /\ logged = <<>>
    /\ db = NoDatabase
    /\ NoObjects

NextFlag ==
    \/ AppendAnyCall
    \/ KeywordCall
    \/ AndCall
    \/ OrCall
    \/ OnCall
    \/ InArrayCall
    \/ ParensCall
    \/ ValuesCall
    \/ SetCall
    \/ LimitCall
    \/ SkipTakeCall
    \/ TakePageCall
    \/ WhereMaybeCall
    \/ AndWhereCall

SpecFlag == InitFlag /\ [][NextFlag]_vars

\* the methods that call append before anything else
ThroughAppend ==
    KeywordOps \cup {"append", "and", "or", "on", "in", "parens", "values", "set",
                     "limit", "skipTake", "takePage"}

FlagFollowsLastCall ==
    (hist # <<>> /\ ~last.threw) =>
        /\ last.op \in ThroughAppend => ~b.hasWhere
        /\ (last.op = "where" /\ ~WhereIsNoop(last.args)) => b.hasWhere

\* andWhere(c2) is called right after an orderBy that followed a pending WHERE
AndWhereAfterOrderBy ==
    /\ hist # <<>>
    /\ last.op = "orderBy"
    /\ pre.hasWhere
    /\ Len(hist') = Len(hist) + 1
    /\ hist'[Len(hist')].op = "andWhere"

-----------------------------------------------------------------------------
(* SpecCarry: builders that carry sidecar entries, appended to a builder   *)
(* or given to the constructor                                             *)

MaxCarryCalls == 3

\* new SQL("f(?)").fndata(d1), and the same followed by .fndata(d2)
Carriers ==
    { SQLfndata(SQLnew(<<Str(<<"f(?)">>)>>), d) : d \in SidecarData }
    \cup { SQLfndata(SQLfndata(SQLnew(<<Str(<<"f(?,?)">>)>>), Obj(<<Prop("blob", N(1))>>)),
                    Obj(<<Prop("blob", N(2))>>)) }

\* append(other): other.sql and other.params are read
AppendCarrierCall ==
    /\ CanCall
    /\ \E other \in Carriers : Call("append", <<other>>, SQLappend(b, <<AsValue(other)>>), FALSE)

\* new SQL(other)
NewFromCarrierCall ==
    /\ hist = <<>>
    /\ \E other \in Carriers : Call("new", <<other>>, SQLnew(<<AsValue(other)>>), FALSE)

InitCarry ==
    /\ b = NewSQL
    /\ pre = NewSQL
    /\ hist = <<>>
    /\ limit = MaxCarryCalls
    /\ ran = NoStatement
    /\ logged = <<>>
    /\ db = NoDatabase
    /\ NoObjects

NextCarry ==
    \/ FndataCall
    \/ AppendCarrierCall
    \/ NewFromCarrierCall

SpecCarry == InitCarry /\ [][NextCarry]_vars

\* the data the index stands for in the sidecar list of bld, undefined when
\* the list has no such entry
Designated(bld, index) ==
    IF bld.fndata.t = "array" /\ index.t = "number" /\ index.n < Len(bld.fndata.a)
    THEN bld.fndata.a[index.n + 1]
    ELSE Undefined

\* C37: after append(other) or new SQL(other), other carrying sidecar
\* entries, every parameter of the receiver that came from an fndata call
\* designates, in the sidecar list of the receiver, the data given to that
\* call.
C37_SidecarCarried ==
    (hist # <<>> /\ last.op \in {"append", "new"}) =>
        LET other == last.args[1]
        IN  \A j \in 1..Len(other.params) :
               Designated(b, b.params[Len(pre.params) + j]) = Designated(other, other.params[j])

\* C38: set(mapping) retains the keys values(mapping) retains: a key that
\* starts with $ or ., a function value and an undefined value each emit no
\* assignment and no parameter.
C38_SetRetainsWhatValuesRetains ==
    (hist # <<>> /\ last.op = "set" /\ Len(last.args) = 1) =>
        LET kept == SelectSeq(last.args[1].o, ValuesKeeps)
        IN  /\ b.params = pre.params \o PropValues(kept)
            /\ Count(b.sql, "?") = Count(pre.sql, "?") + Len(kept)
            /\ b.values = Obj(kept)

\* the order in which the claim has the operators looked for
OpOrder == <<"$ne", "$lt", "$gt", "$lte", "$gte", "$le", "$ge", "$eq", "$like", "$glob",
             "$is", "$isnot", "$in", "$nin", "$or", "$and", "$not">>

FirstOp(v) ==
    LET i == CHOOSE i \in 1..Len(OpOrder) :
                 Has(v, OpOrder[i]) /\ \A j \in 1..(i - 1) : ~Has(v, OpOrder[j])
    IN  OpOrder[i]

\* the expression and the parameters of the one operator op with value x
OneOperator(k, op, x) ==
    IF op \in CmpOps THEN [x |-> <<BQ, k, BQ, " ", OpSign(op), " ", "?">>, a |-> <<x>>]
    ELSE IF op = "$nin"
    THEN [x |-> <<BQ, k, BQ, " ", "NOT", " ", "IN", " ", "(">>
                \o Join([i \in 1..Len(x.a) |-> <<"?">>], <<",">>) \o <<")">>,
          a |-> x.a]
    ELSE Alone(k, Obj(<<Prop(op, x)>>))

\* C39: a value object with several operator keys compiles to the one
\* expression of the first of them in the order $ne, $lt, $gt, $lte, $gte,
\* $le, $ge, $eq, $like, $glob, $is, $isnot, $in, $nin, $or, $and, $not, with
\* the value(s) of that operator bound and nothing else; a value with no
\* operator key is bound as the parameter of a plain equality.
C39_FirstOperatorWins ==
    (Len(hist) > 0 /\ last.op = "buildCondition" /\ Len(last.args[1].o) = 1
        /\ last.args[1].o[1].k = "a")
    =>  LET v == Get(last.args[1], "a")
        IN  /\ v \in TwoOpExprs \cup SeveralOps =>
                  /\ ~last.threw
                  /\ last.ret.x = <<"(">> \o OneOperator("a", FirstOp(v), Get(v, FirstOp(v))).x
                                         \o <<")">>
                  /\ last.ret.a = OneOperator("a", FirstOp(v), Get(v, FirstOp(v))).a
            /\ v \in NoOps =>
                  /\ ~last.threw
                  /\ Count(last.ret.x, "?") = 1
                  /\ Holds(last.ret.x, <<"a", " ", "=", " ", "?">>)
                  /\ last.ret.a = <<v>>

\* C36: andWhere and orWhere given no condition or undefined leave text and
\* parameters as they were and do not throw, whatever the builder holds;
\* no call that throws leaves a keyword appended to text.
C36_NoConditionNoChange ==
    hist # <<>> =>
        /\ (last.op \in {"andWhere", "orWhere"} /\ WhereIsNoopStrict(last.args)) =>
              (~last.threw /\ b.sql = pre.sql /\ b.params = pre.params)
        /\ last.threw => b.sql = pre.sql

\* what the database holds, and what it held before the last call
Visible == [rows |-> db.rows, tears |-> db.tears, tables |-> db.tables]
VisibleBefore == [rows |-> db.call.rows, tears |-> db.call.tears, tables |-> db.call.tables]
StoredBefore == LET v == Stored(db.call.tears, Str(<<"migrationStep">>))
                IN  IF v.t = "undefined" THEN 0 ELSE v.n

\* C34: when a step throws during migrate the error reaches the caller, the
\* migrationStep stored is unchanged and no effect of a step of that call
\* stays visible, also when the steps used createTable or setMetaValue.
C34_FailedMigrateLeavesNothing ==
    (db # NoDatabase /\ db.call.op = "migrate") =>
        /\ (db.call.arg.bad > StoredBefore) => db.call.threw
        /\ db.call.threw => (Visible = VisibleBefore /\ StoredStep = StoredBefore)

====
